---- MODULE Spec2Model ----
(***************************************************************************)
(* Cascade Router: the routing engine (Router), its candidate selector and *)
(* the usage limiter (TokenLimiter), as a state machine.                   *)
(*                                                                         *)
(* Units.  Time is Date.now() in units of 10 ms (TLC integers are 32 bit   *)
(* and the 30-day window is 2592000000 ms).  Declared cost is in cents     *)
(* per million tokens and every cost amount is in units of 1e-8 dollar, so *)
(* that cost = tokens * costPerMillion stays an integer (the source        *)
(* computes tokens / 1000000 * costPerMillion in floating point).          *)
(* Availability is in percent.                                             *)
(*                                                                         *)
(* Concurrency.  JavaScript runs each promise continuation to completion,  *)
(* so one action is one continuation: the synchronous prefix of route()    *)
(* up to the first adapter call, the continuation after an adapter call    *)
(* settles, the catch handler of one raced branch.  The progress monitor   *)
(* only notifies callbacks and is left out.                                *)
(***************************************************************************)
EXTENDS Integers, Sequences, FiniteSets, TLC

\* ------------------------------------------------------------------ bounds
NCalls == 2
MaxTicks == 1
MaxCandidateCount == 4

\* ------------------------------------------------------- program constants
MinuteWindow == 6000
DayWindow == 8640000
MonthWindow == 259200000
DefaultOutputTokens == 500
CharsPerToken == 4
LimiterCostPerMillion == 100
DefaultCandidateCount == 2

\* ------------------------------------------------------------ input sets
TicksPerSecond == 100
TickStep == MinuteWindow
Calls == 1..NCalls
ProviderIds == <<"p1", "p2", "p3">>
P == {ProviderIds[i] : i \in 1..Len(ProviderIds)}
RespTokens == {2}
\* Date.now() - attemptStart of a completed attempt
Durations == {4}
\* an optional configuration object that was not supplied
NoBudgetLimits ==
  [present |-> FALSE, dailyTokens |-> 0, dailyCost |-> 0,
   monthlyTokens |-> 0, monthlyCost |-> 0]
NoRateLimits == [present |-> FALSE, requestsPerMinute |-> 0, tokensPerMinute |-> 0]
NoSpeculativeConfig ==
  [present |-> FALSE, candidateCount |-> 0, candidateStrategy |-> "none",
   enableCostTracking |-> FALSE]
NoResult ==
  [provider |-> "none", fallbackTriggered |-> FALSE, totalCost |-> 0, tokens |-> 0]

Requests ==
  { [promptLen |-> 4, msgLens |-> <<>>, maxTokens |-> 1],
    [promptLen |-> 0, msgLens |-> <<4>>, maxTokens |-> 3] }

\* ------------------------------------------------------------- sequences
RECURSIVE SumSeq(_)
SumSeq(s) == IF s = <<>> THEN 0 ELSE Head(s) + SumSeq(Tail(s))

Range(s) == {s[i] : i \in 1..Len(s)}

Min(a, b) == IF a < b THEN a ELSE b

\* Math.ceil(a / b) for b > 0
CeilDiv(a, b) == IF a % b = 0 THEN a \div b ELSE (a \div b) + 1

\* ============================================================ TokenLimiter
estimateTextTokens(len) == CeilDiv(len, CharsPerToken)

estimateRequestTokens(req) ==
  estimateTextTokens(req.promptLen)
  + SumSeq([i \in 1..Len(req.msgLens) |-> estimateTextTokens(req.msgLens[i])])
  + (IF req.maxTokens # 0 THEN req.maxTokens ELSE DefaultOutputTokens)

estimateCost(tokens) == tokens * LimiterCostPerMillion

UsageTotals(ledger, since) ==
  LET recent == SelectSeq(ledger, LAMBDA r : r.timestamp > since)
  IN  [tokens |-> SumSeq([i \in 1..Len(recent) |-> recent[i].tokens]),
       cost   |-> SumSeq([i \in 1..Len(recent) |-> recent[i].cost])]

calculateDailyUsageMonthWindow(l, t) == UsageTotals(l.dailyUsage, t - MonthWindow)

calculateDailyUsage(l, t) == UsageTotals(l.dailyUsage, t - DayWindow)

calculateMonthlyUsage(l, t) == UsageTotals(l.monthlyUsage, t - MonthWindow)

BudgetAllowed(usage, limit) ==
  [allowed |-> TRUE, budgetType |-> "none", usage |-> usage, limit |-> limit]

BudgetDenied(type, usage, limit) ==
  [allowed |-> FALSE, budgetType |-> type, usage |-> usage, limit |-> limit]

checkBudget(l, budgetLimits, req, t) ==
  IF ~budgetLimits.present THEN BudgetAllowed(0, 0)
  ELSE
    LET estimatedTokens == estimateRequestTokens(req)
        estimatedCost == estimateCost(estimatedTokens)
        daily == calculateDailyUsage(l, t)
        dailyTokensAfter == daily.tokens + estimatedTokens
        dailyCostAfter == daily.cost + estimatedCost
        monthly == calculateMonthlyUsage(l, t)
        monthlyTokensAfter == monthly.tokens + estimatedTokens
        monthlyCostAfter == monthly.cost + estimatedCost
    IN  IF budgetLimits.dailyTokens > 0 /\ dailyTokensAfter > budgetLimits.dailyTokens
          THEN BudgetDenied("daily", dailyTokensAfter, budgetLimits.dailyTokens)
        ELSE IF budgetLimits.dailyCost > 0 /\ dailyCostAfter > budgetLimits.dailyCost
          THEN BudgetDenied("daily", dailyCostAfter, budgetLimits.dailyCost)
        ELSE IF budgetLimits.monthlyTokens > 0
                /\ monthlyTokensAfter > budgetLimits.monthlyTokens
          THEN BudgetDenied("monthly", monthlyTokensAfter, budgetLimits.monthlyTokens)
        ELSE IF budgetLimits.monthlyCost > 0
                /\ monthlyCostAfter > budgetLimits.monthlyCost
          THEN BudgetDenied("monthly", monthlyCostAfter, budgetLimits.monthlyCost)
        ELSE BudgetAllowed(dailyCostAfter, budgetLimits.dailyCost)

recentRequestsNoExpiry(l, t) == l.requestHistory

recentRequestsInclusive(l, t) ==
  SelectSeq(l.requestHistory, LAMBDA ts : ts >= t - MinuteWindow)

recentRequests(l, t) ==
  SelectSeq(l.requestHistory, LAMBDA ts : ts > t - MinuteWindow)

recentTokens(l, t) ==
  LET recent == SelectSeq(l.tokenUsageHistory,
                         LAMBDA r : r.timestamp > t - MinuteWindow)
  IN  SumSeq([i \in 1..Len(recent) |-> recent[i].tokens])

\* retryAfter = -1 stands for "no retryAfter field"
checkRateLimitsStrict(l, rateLimits, t) ==
  IF ~rateLimits.present THEN [allowed |-> TRUE, cause |-> "none", retryAfter |-> -1]
  ELSE
    LET recent == recentRequests(l, t)
    IN  IF rateLimits.requestsPerMinute > 0
           /\ Len(recent) > rateLimits.requestsPerMinute
          THEN [allowed |-> FALSE, cause |-> "requests",
                retryAfter |-> CeilDiv(recent[1] + MinuteWindow - t, TicksPerSecond)]
        ELSE IF rateLimits.tokensPerMinute > 0
                /\ recentTokens(l, t) >= rateLimits.tokensPerMinute
          THEN [allowed |-> FALSE, cause |-> "tokens", retryAfter |-> -1]
        ELSE [allowed |-> TRUE, cause |-> "none", retryAfter |-> -1]

\* Math.floor in place of Math.ceil
checkRateLimitsFloor(l, rateLimits, t) ==
  IF ~rateLimits.present THEN [allowed |-> TRUE, cause |-> "none", retryAfter |-> -1]
  ELSE
    LET recent == recentRequests(l, t)
    IN  IF rateLimits.requestsPerMinute > 0
           /\ Len(recent) >= rateLimits.requestsPerMinute
          THEN [allowed |-> FALSE, cause |-> "requests",
                retryAfter |-> (recent[1] + MinuteWindow - t) \div TicksPerSecond]
        ELSE IF rateLimits.tokensPerMinute > 0
                /\ recentTokens(l, t) >= rateLimits.tokensPerMinute
          THEN [allowed |-> FALSE, cause |-> "tokens", retryAfter |-> -1]
        ELSE [allowed |-> TRUE, cause |-> "none", retryAfter |-> -1]

checkRateLimits(l, rateLimits, t) ==
  IF ~rateLimits.present THEN [allowed |-> TRUE, cause |-> "none", retryAfter |-> -1]
  ELSE
    LET recent == recentRequests(l, t)
    IN  IF rateLimits.requestsPerMinute > 0
           /\ Len(recent) >= rateLimits.requestsPerMinute
          THEN [allowed |-> FALSE, cause |-> "requests",
                retryAfter |-> CeilDiv(recent[1] + MinuteWindow - t, TicksPerSecond)]
        ELSE IF rateLimits.tokensPerMinute > 0
                /\ recentTokens(l, t) >= rateLimits.tokensPerMinute
          THEN [allowed |-> FALSE, cause |-> "tokens", retryAfter |-> -1]
        ELSE [allowed |-> TRUE, cause |-> "none", retryAfter |-> -1]

cleanupOldRecords(l, t) ==
  [dailyUsage |-> SelectSeq(l.dailyUsage, LAMBDA r : r.timestamp > t - DayWindow),
   monthlyUsage |-> SelectSeq(l.monthlyUsage, LAMBDA r : r.timestamp > t - MonthWindow),
   requestHistory |-> SelectSeq(l.requestHistory, LAMBDA ts : ts > t - MinuteWindow),
   tokenUsageHistory |->
     SelectSeq(l.tokenUsageHistory, LAMBDA r : r.timestamp > t - MinuteWindow)]

recordUsageDailyOnly(l, total, t) ==
  LET rec == [tokens |-> total, cost |-> estimateCost(total), timestamp |-> t]
  IN  cleanupOldRecords(
        [dailyUsage |-> Append(l.dailyUsage, rec),
         monthlyUsage |-> l.monthlyUsage,
         requestHistory |-> Append(l.requestHistory, t),
         tokenUsageHistory |-> Append(l.tokenUsageHistory,
                                      [timestamp |-> t, tokens |-> total])], t)

recordUsage(l, total, t) ==
  LET rec == [tokens |-> total, cost |-> estimateCost(total), timestamp |-> t]
  IN  cleanupOldRecords(
        [dailyUsage |-> Append(l.dailyUsage, rec),
         monthlyUsage |-> Append(l.monthlyUsage, rec),
         requestHistory |-> Append(l.requestHistory, t),
         tokenUsageHistory |-> Append(l.tokenUsageHistory,
                                      [timestamp |-> t, tokens |-> total])], t)

\* (cost / ceiling) * 100 of getBudgetUsage, 0 without budgetLimits: a
\* number as the quotient num / den, or the NaN of 0 / 0, or the Infinity of
\* a positive cost over a zero ceiling
budgetPercentage(cost, budgetLimits, ceiling) ==
  IF ~budgetLimits.present THEN [kind |-> "number", num |-> 0, den |-> 1]
  ELSE IF ceiling > 0 THEN [kind |-> "number", num |-> cost * 100, den |-> ceiling]
  ELSE IF cost = 0 THEN [kind |-> "NaN", num |-> 0, den |-> 1]
  ELSE [kind |-> "Infinity", num |-> 0, den |-> 1]

\* the two percentages of getBudgetUsage
budgetPercentages(l, budgetLimits, t) ==
  [dailyPercentage |->
     budgetPercentage(calculateDailyUsage(l, t).cost, budgetLimits,
                      budgetLimits.dailyCost),
   monthlyPercentage |->
     budgetPercentage(calculateMonthlyUsage(l, t).cost, budgetLimits,
                      budgetLimits.monthlyCost)]

\* getBudgetUsage without its two percentages
getBudgetUsage(l, t) ==
  LET daily == calculateDailyUsage(l, t)
      monthly == calculateMonthlyUsage(l, t)
  IN  [dailyTokens |-> daily.tokens, dailyCost |-> daily.cost,
       monthlyTokens |-> monthly.tokens, monthlyCost |-> monthly.cost]

\* checkRateLimits() was not called
NoRateLimitCheck == [allowed |-> TRUE, cause |-> "none", retryAfter |-> -1]

EmptyLimiter ==
  [dailyUsage |-> <<>>, monthlyUsage |-> <<>>,
   requestHistory |-> <<>>, tokenUsageHistory |-> <<>>]

resetDailyUsageAll(l) ==
  [dailyUsage |-> <<>>, monthlyUsage |-> <<>>,
   requestHistory |-> <<>>, tokenUsageHistory |-> <<>>]

resetDailyUsage(l) == [l EXCEPT !.dailyUsage = <<>>]

resetMonthlyUsage(l) == [l EXCEPT !.monthlyUsage = <<>>]

resetAllUsage(l) ==
  [dailyUsage |-> <<>>, monthlyUsage |-> <<>>,
   requestHistory |-> <<>>, tokenUsageHistory |-> <<>>]

\* ======================================================= candidate selector
\* Array.prototype.sort with the comparator key(a) - key(b): a stable sort,
\* ascending by key.
RECURSIVE InsertByKey(_, _, _)
InsertByKey(sorted, id, key) ==
  IF sorted = <<>> THEN <<id>>
  ELSE IF key[id] < key[Head(sorted)] THEN <<id>> \o sorted
       ELSE <<Head(sorted)>> \o InsertByKey(Tail(sorted), id, key)

RECURSIVE StableSortByKey(_, _)
StableSortByKey(ids, key) ==
  IF ids = <<>> THEN <<>>
  ELSE InsertByKey(StableSortByKey(SubSeq(ids, 1, Len(ids) - 1), key),
                   ids[Len(ids)], key)

sortByCostByLatency(ids, descs) ==
  StableSortByKey(ids, [p \in P |-> descs[p].latency])

sortByCost(ids, descs) ==
  StableSortByKey(ids, [p \in P |-> descs[p].costPerMillionTokens])

sortBySpeed(ids, descs) == StableSortByKey(ids, [p \in P |-> descs[p].latency])

sortByQuality(ids, descs) == StableSortByKey(ids, [p \in P |-> descs[p].priority])

sortByPriority(ids, descs) == StableSortByKey(ids, [p \in P |-> descs[p].priority])

balancedScoreNoAvailability(d) ==
  4 * (10000 - d.costPerMillionTokens)
  + 3 * (10000 - d.latency)
  + 200 * (100 - d.priority)

\* score * 100000, with cost in cents and availability in percent
balancedScore(d) ==
  4 * (10000 - d.costPerMillionTokens)
  + 3 * (10000 - d.latency)
  + 200 * (100 - d.priority)
  + 100 * d.availability

\* descending by score: ascending by the negated score
sortByBalanced(ids, descs) ==
  StableSortByKey(ids, [p \in P |-> 0 - balancedScore(descs[p])])

allProviders(reg, descs) == reg

\* the registered and enabled endpoints, in registration (Map insertion) order
enabledProviders(reg, descs) == SelectSeq(reg, LAMBDA id : descs[id].enabled)

\* selectProviders after its NO_PROVIDERS check
selectProviders(strategy, reg, descs) ==
  LET availableProviders == enabledProviders(reg, descs)
  IN  CASE strategy = "cost" -> sortByCost(availableProviders, descs)
        [] strategy = "speed" -> sortBySpeed(availableProviders, descs)
        [] strategy = "quality" -> sortByQuality(availableProviders, descs)
        [] strategy = "balanced" -> sortByBalanced(availableProviders, descs)
        [] strategy = "priority" -> sortByPriority(availableProviders, descs)
        [] strategy = "fallback" -> sortByPriority(availableProviders, descs)
        [] strategy = "speculative" -> availableProviders
        [] OTHER -> sortByPriority(availableProviders, descs)

Slice0OneMore(s, end) == SubSeq(s, 1, Min(end + 1, Len(s)))

\* Array.prototype.slice(0, end): a negative end counts from the end
Slice0(s, end) ==
  LET e == IF end < 0 THEN (IF Len(s) + end < 0 THEN 0 ELSE Len(s) + end)
           ELSE Min(end, Len(s))
  IN  SubSeq(s, 1, e)

selectSpeculativeCandidates(ids, strategy, count, descs) ==
  LET sorted == CASE strategy = "speed" -> sortBySpeed(ids, descs)
                  [] strategy = "quality" -> sortByQuality(ids, descs)
                  [] strategy = "balanced" -> sortByBalanced(ids, descs)
  IN  Slice0(sorted, Min(count, Len(sorted)))

DefaultSpeculativeConfig ==
  [present |-> TRUE, candidateCount |-> DefaultCandidateCount,
   candidateStrategy |-> "speed", enableCostTracking |-> TRUE]

specConfigOf(cfg) ==
  IF ~cfg.speculativeConfig.present THEN DefaultSpeculativeConfig
  ELSE cfg.speculativeConfig

\* ================================================================ metrics
\* A JavaScript number that is a quotient of non-negative integers, kept
\* exact and in lowest terms: [num, den] with den > 0.
RECURSIVE Gcd(_, _)
Gcd(a, b) == IF b = 0 THEN a ELSE Gcd(b, a % b)

Rat(n, d) ==
  LET g == Gcd(n, d)
  IN  IF n = 0 THEN [num |-> 0, den |-> 1] ELSE [num |-> n \div g, den |-> d \div g]

\* avg + (x - avg) / count, the running average of updateMetrics and of
\* updateSpeculativeMetrics; x and avg are quotients
IncrementalAverage(avg, x, count) ==
  Rat(avg.num * x.den * (count - 1) + x.num * avg.den, avg.den * x.den * count)

createEmptyProviderMetrics ==
  [requestCount |-> 0, successCount |-> 0, failureCount |-> 0,
   totalTokens |-> 0, totalCost |-> 0, avgLatency |-> Rat(0, 1), lastUsed |-> 0]

EmptySpeculativeMetrics ==
  [totalSpeculativeRequests |-> 0, totalAdditionalCost |-> 0,
   avgTimeSaved |-> Rat(0, 1), avgCostIncrease |-> Rat(0, 1),
   fasterThanSequentialCount |-> 0, avgCandidatesRaced |-> Rat(0, 1)]

\* providerMetrics is a Map: ids is its key set, and the function holds the
\* values under those keys (an id outside ids has no entry)
createEmptyMetrics ==
  [totalRequests |-> 0, totalCost |-> 0, totalTokens |-> 0,
   rateLimitHits |-> 0, fallbackCount |-> 0,
   ids |-> {},
   providerMetrics |-> [p \in P |-> createEmptyProviderMetrics],
   speculativeExecutionMetrics |-> EmptySpeculativeMetrics]

\* this.metrics.providerMetrics.set(id, this.createEmptyProviderMetrics(id))
setEmptyProviderMetrics(m, id) ==
  [m EXCEPT !.ids = @ \cup {id}, !.providerMetrics[id] = createEmptyProviderMetrics]

RECURSIVE setEmptyForAll(_, _)
setEmptyForAll(m, reg) ==
  IF reg = <<>> THEN m
  ELSE setEmptyForAll(setEmptyProviderMetrics(m, Head(reg)), Tail(reg))

resetMetricsNoEntries(reg) == createEmptyMetrics

\* resetMetrics(); the constructor followed by one registerProvider() per
\* endpoint leaves the same value
resetMetrics(reg) == setEmptyForAll(createEmptyMetrics, reg)

\* BaseProvider.calculateCost
calculateCost(tokens, d) == tokens * d.costPerMillionTokens

\* a read-modify-write of the totals that loses the earlier updates
updateMetricsLostUpdate(m, id, resp, duration, t) ==
  [m EXCEPT !.providerMetrics[id] =
              [@ EXCEPT !.requestCount = @ + 1, !.successCount = @ + 1,
                        !.totalTokens = @ + resp.tokens, !.totalCost = @ + resp.cost,
                        !.lastUsed = t],
            !.totalRequests = 1,
            !.totalCost = resp.cost,
            !.totalTokens = resp.tokens]

updateMetrics(m, id, resp, duration, t) ==
  LET pm == m.providerMetrics[id]
  IN  IF id \notin m.ids THEN m ELSE
      [m EXCEPT
        !.providerMetrics[id] =
          [pm EXCEPT !.requestCount = @ + 1, !.successCount = @ + 1,
                     !.totalTokens = @ + resp.tokens, !.totalCost = @ + resp.cost,
                     !.lastUsed = t,
                     !.avgLatency = IncrementalAverage(@, Rat(duration, 1),
                                                       pm.requestCount + 1)],
        !.totalRequests = @ + 1,
        !.totalCost = @ + resp.cost,
        !.totalTokens = @ + resp.tokens]

\* a failure that is also entered into the latency average and lastUsed
updateFailureMetricsTimed(m, id) ==
  [m EXCEPT !.providerMetrics[id] =
     [@ EXCEPT !.requestCount = @ + 1, !.failureCount = @ + 1,
               !.avgLatency = IncrementalAverage(@, Rat(0, 1), m.providerMetrics[id].requestCount + 1)]]

\* a failure that is not counted as a request
updateFailureMetricsUncounted(m, id) ==
  [m EXCEPT !.providerMetrics[id].failureCount = @ + 1]

updateFailureMetrics(m, id) ==
  IF id \notin m.ids THEN m ELSE
  [m EXCEPT !.providerMetrics[id].requestCount = @ + 1,
            !.providerMetrics[id].failureCount = @ + 1]

\* the winner's own cost counted among the additional ones
updateSpeculativeMetricsAllRaced(m, candidatesRaced, duration, cost) ==
  LET sm == m.speculativeExecutionMetrics
      n == sm.totalSpeculativeRequests + 1
      additionalCost == cost * candidatesRaced
  IN  [m EXCEPT !.speculativeExecutionMetrics =
        [totalSpeculativeRequests |-> n,
         totalAdditionalCost |-> sm.totalAdditionalCost + additionalCost,
         avgTimeSaved |-> IncrementalAverage(sm.avgTimeSaved, Rat(duration, 2), n),
         avgCostIncrease |->
           IncrementalAverage(sm.avgCostIncrease, Rat(additionalCost, 1), n),
         fasterThanSequentialCount |-> sm.fasterThanSequentialCount + 1,
         avgCandidatesRaced |->
           IncrementalAverage(sm.avgCandidatesRaced, Rat(candidatesRaced, 1), n)]]

updateSpeculativeMetrics(m, candidatesRaced, duration, cost) ==
  LET sm == m.speculativeExecutionMetrics
      n == sm.totalSpeculativeRequests + 1
      \* duration * 1.5 - duration
      timeSaved == Rat(duration, 2)
      additionalCost == cost * (candidatesRaced - 1)
  IN  [m EXCEPT !.speculativeExecutionMetrics =
        [totalSpeculativeRequests |-> n,
         totalAdditionalCost |-> sm.totalAdditionalCost + additionalCost,
         avgTimeSaved |-> IncrementalAverage(sm.avgTimeSaved, timeSaved, n),
         avgCostIncrease |->
           IncrementalAverage(sm.avgCostIncrease, Rat(additionalCost, 1), n),
         fasterThanSequentialCount |-> sm.fasterThanSequentialCount + 1,
         avgCandidatesRaced |->
           IncrementalAverage(sm.avgCandidatesRaced, Rat(candidatesRaced, 1), n)]]

\* ------------------------------------------------------------ getMetrics()
\* What a caller holds after getMetrics(): the spread copies the number-valued
\* totals; new Map(providerMetrics) copies the keys, while each value stays
\* the router's own ProviderMetrics object until the router replaces it in
\* its map (shared); detached holds the values of the objects that the
\* router has replaced since.
NoSnapshot ==
  [taken |-> FALSE, afterReset |-> FALSE, providers |-> {},
   totalRequests |-> 0, totalCost |-> 0, totalTokens |-> 0,
   rateLimitHits |-> 0, fallbackCount |-> 0,
   ids |-> {}, shared |-> {},
   detached |-> [p \in P |-> createEmptyProviderMetrics],
   asReturned |-> [p \in P |-> createEmptyProviderMetrics]]

\* afterReset, providers and asReturned are history: whether resetMetrics()
\* ran just before, the registered ids and the per-endpoint values at the
\* time of the return
getMetrics(m, wasReset, reg) ==
  [taken |-> TRUE, afterReset |-> wasReset, providers |-> Range(reg),
   totalRequests |-> m.totalRequests, totalCost |-> m.totalCost,
   totalTokens |-> m.totalTokens,
   rateLimitHits |-> m.rateLimitHits, fallbackCount |-> m.fallbackCount,
   ids |-> m.ids, shared |-> m.ids,
   detached |-> [p \in P |-> createEmptyProviderMetrics],
   asReturned |-> m.providerMetrics]

\* the router puts new objects under the keys in ids: the snapshot keeps
\* the old ones, which nothing updates any more
detach(snap, m, ids) ==
  [snap EXCEPT !.shared = @ \ ids,
               !.detached = [p \in P |-> IF p \in snap.shared \cap ids
                                         THEN m.providerMetrics[p] ELSE @[p]]]

\* snapshot.providerMetrics.get(p) as the caller reads it now
snapshotEntry(snap, m, p) ==
  IF p \in snap.shared THEN m.providerMetrics[p] ELSE snap.detached[p]

\* ================================================================= state
VARIABLES
  now,          \* Date.now()
  initialized,  \* Router.initialized
  config,       \* Router.config (RoutingConfig)
  registry,     \* keys of Router.providers, in insertion order
  descs,        \* Provider.config of every endpoint
  metrics,      \* Router.metrics
  lim,          \* the four lists of the TokenLimiter
  call,         \* one record per route() call: its locals and its position
  snapshot,     \* the value of the caller's last getMetrics()
  fresh,        \* history: resetMetrics() ran and no operation since
  warned        \* ids for which initialize() logged "is not available"

vars == <<now, initialized, config, registry, descs, metrics, lim, call,
          snapshot, fresh, warned>>

\* ------------------------------------------------------ configurations
Descriptor(en, cost, lat, prio, avail) ==
  [enabled |-> en, costPerMillionTokens |-> cost, latency |-> lat,
   priority |-> prio, availability |-> avail]

\* no adapter was fetched under this id
NoAdapter == Descriptor(FALSE, 0, 0, 0, 0)

AllEnabled ==
  [p \in P |-> CASE p = "p1" -> Descriptor(TRUE, 15, 500, 20, 99)
              [] p = "p2" -> Descriptor(TRUE, 25, 50, 10, 99)
              [] p = "p3" -> Descriptor(TRUE, 0, 2000, 30, 95)]

OneDisabled ==
  [p \in P |-> CASE p = "p1" -> Descriptor(TRUE, 15, 500, 20, 99)
              [] p = "p2" -> Descriptor(FALSE, 25, 50, 10, 99)
              [] p = "p3" -> Descriptor(TRUE, 0, 2000, 10, 95)]

BudgetConfigs ==
  { [present |-> TRUE, dailyTokens |-> 5, dailyCost |-> 0,
     monthlyTokens |-> 0, monthlyCost |-> 0] }

RateConfigs ==
  { [present |-> TRUE, requestsPerMinute |-> 1, tokensPerMinute |-> 0] }

SpeculativeConfigs ==
  { NoSpeculativeConfig,
    [present |-> TRUE, candidateCount |-> 1, candidateStrategy |-> "quality",
     enableCostTracking |-> TRUE] }

SequentialStrategies == {"priority", "cost"}

AllStrategies ==
  {"cost", "speed", "quality", "balanced", "priority", "fallback", "speculative"}

Configs ==
  [strategy : SequentialStrategies \cup {"speculative"}, fallbackEnabled : BOOLEAN,
   budgetLimits : BudgetConfigs, rateLimits : RateConfigs,
   speculativeConfig : SpeculativeConfigs]

\* ------------------------------------------------------------ route() calls
IdleCall ==
  [pc |-> "idle", err |-> "none",
   sel |-> <<>>, idx |-> 0, attempts |-> <<>>, result |-> NoResult,
   branch |-> [p \in P |-> "none"],
   inflight |-> {},      \* adapters whose chat() promise is pending
   called |-> <<>>,      \* history: adapters called, in call order
   adapters |-> [p \in P |-> NoAdapter],  \* this.providers.get(id) of each adapter called
   firstOk |-> "none",   \* history: the first raced adapter that succeeded
   late |-> {},          \* history: adapters that completed after the call ended
   gateSeen |-> -1,      \* history: requests in the window when the call started
   stream |-> FALSE,     \* the call is a routeStream() call
   check |-> NoRateLimitCheck]  \* what a checkRateLimits() call returned

GateErrors == {"BudgetExceeded", "RateLimited"}

InitWith(strategies, tables) ==
  /\ now = 0
  /\ initialized = FALSE
  /\ config \in Configs
  /\ config.strategy \in strategies
  /\ config.strategy # "speculative" => config.speculativeConfig = NoSpeculativeConfig
  /\ registry = ProviderIds
  /\ descs \in tables
  /\ metrics = resetMetrics(registry)
  /\ lim = EmptyLimiter
  /\ call = [c \in Calls |-> IdleCall]
  /\ snapshot = NoSnapshot
  /\ fresh = FALSE
  /\ warned = {}

\* --------------------------------------------------------------- actions
Tick ==
  /\ now < MaxTicks * TickStep
  /\ now' = now + TickStep
  /\ UNCHANGED <<initialized, config, registry, descs, metrics, lim, call, snapshot, fresh, warned>>

\* initialize(): every registered adapter is probed, available[p] being
\* what isAvailable() of p resolved to; a false report is only logged
initializeStrict(available) == \A p \in Range(registry) : available[p]

initializeDone(available) == TRUE

InitializeWith(available) ==
  /\ ~initialized
  /\ warned' = {p \in Range(registry) : ~available[p]}
  /\ initialized' = initializeDone(available)
  /\ fresh' = FALSE
  /\ UNCHANGED <<now, config, registry, descs, metrics, lim, call, snapshot>>

\* initialize() with every adapter reporting available
Initialize ==
  /\ ~initialized
  /\ InitializeWith([p \in P |-> TRUE])

\* a gate that leaves out the rate check
routeGateBudgetOnly(l, cfg, req, t) ==
  IF ~checkBudget(l, cfg.budgetLimits, req, t).allowed THEN "BudgetExceeded"
  ELSE "ok"

routeGate(l, cfg, req, t) ==
  IF ~checkBudget(l, cfg.budgetLimits, req, t).allowed THEN "BudgetExceeded"
  ELSE IF ~checkRateLimits(l, cfg.rateLimits, t).allowed THEN "RateLimited"
  ELSE "ok"

\* a gate failure is thrown and nothing else happens
GateDeniedCounted(c, req, kind) ==
  /\ call' = [call EXCEPT ![c] = [@ EXCEPT !.pc = "threw", !.err = kind]]
  /\ metrics' = [metrics EXCEPT !.rateLimitHits = @ + 1]
  /\ UNCHANGED lim

GateDeniedRecorded(c, req, kind) ==
  /\ call' = [call EXCEPT ![c] = [@ EXCEPT !.pc = "threw", !.err = kind]]
  /\ lim' = recordUsage(lim, estimateRequestTokens(req), now)
  /\ UNCHANGED metrics

GateDenied(c, req, kind) ==
  /\ call' = [call EXCEPT ![c] = [@ EXCEPT !.pc = "threw", !.err = kind]]
  /\ UNCHANGED <<metrics, lim>>

failedAttemptAsSuccess(p) == [provider |-> p, success |-> TRUE]

failedAttempt(p) == [provider |-> p, success |-> FALSE]

successAttempt(p) == [provider |-> p, success |-> TRUE]

\* the synchronous prefix of route(): gate, selection, first adapter call(s)
RouteStart(c, req) ==
  /\ call[c].pc = "idle"
  /\ IF c = 1 THEN TRUE ELSE call[c - 1].pc # "idle"   \* slots are used in order
  /\ fresh' = FALSE
  /\ UNCHANGED <<now, initialized, config, registry, descs, snapshot, warned>>
  /\ LET gate == routeGate(lim, config, req, now)
         seen == Len(recentRequests(lim, now))
         sel == selectProviders(config.strategy, registry, descs)
         sc == specConfigOf(config)
         cands == IF config.strategy = "speculative"
                  THEN selectSpeculativeCandidates(sel, sc.candidateStrategy,
                                                   sc.candidateCount, descs)
                  ELSE sel
     IN  IF ~initialized
           THEN /\ call' = [call EXCEPT ![c] =
                       [@ EXCEPT !.pc = "threw", !.err = "NotInitialized"]]
                /\ UNCHANGED <<metrics, lim>>
         ELSE IF gate # "ok" THEN GateDenied(c, req, gate)
         ELSE IF cands = <<>>
           THEN /\ call' = [call EXCEPT ![c] =
                       [@ EXCEPT !.pc = "threw", !.err = "NoProviders",
                                 !.gateSeen = seen]]
                /\ UNCHANGED <<metrics, lim>>
         ELSE IF config.strategy = "speculative"
           THEN /\ call' = [call EXCEPT ![c] =
                       [@ EXCEPT !.pc = "racing", !.sel = cands,
                                 !.branch = [p \in P |-> IF p \in Range(cands)
                                                         THEN "inflight" ELSE "none"],
                                 !.inflight = Range(cands), !.called = cands,
                                 !.adapters = [p \in P |-> IF p \in Range(cands)
                                                           THEN descs[p] ELSE NoAdapter],
                                 !.gateSeen = seen]]
                /\ UNCHANGED <<metrics, lim>>
         ELSE /\ call' = [call EXCEPT ![c] =
                     [@ EXCEPT !.pc = "trying", !.sel = sel, !.idx = 1,
                               !.inflight = {sel[1]}, !.called = <<sel[1]>>,
                               !.adapters = [@ EXCEPT ![sel[1]] = descs[sel[1]]],
                               !.gateSeen = seen]]
              /\ UNCHANGED <<metrics, lim>>

fallbackTriggeredOf(attempts) == Len(attempts) > 0

\* sequential loop: the awaited chat() of candidate idx resolved
SeqSuccess(c, tok) ==
  /\ call[c].pc = "trying"
  /\ LET p == call[c].sel[call[c].idx]
         resp == [tokens |-> tok, cost |-> calculateCost(tok, call[c].adapters[p])]
         attempts == Append(call[c].attempts, successAttempt(p))
     IN  /\ \E duration \in Durations :
                 metrics' = updateMetrics(metrics, p, resp, duration, now)
         /\ lim' = recordUsage(lim, resp.tokens, now)
         /\ call' = [call EXCEPT ![c] =
               [@ EXCEPT !.pc = "returned", !.attempts = attempts,
                         !.inflight = {},
                         !.result = [provider |-> p,
                                     fallbackTriggered |-> fallbackTriggeredOf(attempts),
                                     totalCost |-> resp.cost, tokens |-> resp.tokens]]]
  /\ fresh' = FALSE
  /\ UNCHANGED <<now, initialized, config, registry, descs, snapshot, warned>>

seqAfterFailureAlways(cfg, idx, sel) ==
  IF idx < Len(sel) THEN "next" ELSE "allFailed"

seqAfterFailureShort(cfg, idx, sel) ==
  IF ~cfg.fallbackEnabled THEN "throw"
  ELSE IF idx < Len(sel) - 1 THEN "next"
  ELSE "allFailed"

\* the catch block of the loop: rethrow, go on, or run out of candidates
seqAfterFailure(cfg, idx, sel) ==
  IF ~cfg.fallbackEnabled THEN "throw"
  ELSE IF idx < Len(sel) THEN "next"
  ELSE "allFailed"

seqNextIndexSame(idx) == idx

seqNextIndex(idx) == idx + 1

\* sequential loop: the awaited chat() of candidate idx rejected
SeqFail(c) ==
  /\ call[c].pc = "trying"
  /\ LET p == call[c].sel[call[c].idx]
         attempts == Append(call[c].attempts, failedAttempt(p))
         after == seqAfterFailure(config, call[c].idx, call[c].sel)
         nxt == seqNextIndex(call[c].idx)
     IN  /\ metrics' = updateFailureMetrics(metrics, p)
         /\ call' = [call EXCEPT ![c] =
               CASE after = "throw" ->
                      [@ EXCEPT !.pc = "threw", !.err = "EndpointFailure",
                                !.attempts = attempts, !.inflight = {}]
                 [] after = "next" ->
                      [@ EXCEPT !.idx = nxt, !.attempts = attempts,
                                !.inflight = {call[c].sel[nxt]},
                                !.called = Append(@, call[c].sel[nxt]),
                            !.adapters = [@ EXCEPT ![call[c].sel[nxt]] =
                                            descs[call[c].sel[nxt]]]]
                 [] after = "allFailed" ->
                      [@ EXCEPT !.pc = "threw", !.err = "AllProvidersFailed",
                                !.attempts = attempts, !.inflight = {}]]
  /\ fresh' = FALSE
  /\ UNCHANGED <<now, initialized, config, registry, descs, lim, snapshot, warned>>

\* ------------------------------------------------------------ race mode
\* Branch states of one raced candidate:
\*   "inflight"    executeWithAbortControl's promise is pending
\*   "rejPlain"    it rejected with the adapter's own error; the catch
\*   "rejAborted"    handler of racePromises has not run yet ("rejAborted":
\*                   the adapter's message contains the word 'aborted')
\*   "failed"      the catch handler ran
\*   "won"         it resolved first and Promise.any took it
\*   "cancelled"   abort() rejected it with 'Request aborted'
ErrorKinds == {"plain", "aborted"}

\* !errorMsg.includes('aborted')
recordsFailure(kind) == kind # "aborted"

\* Promise.any rejects when every racePromise has rejected
raceAnyRejected(branch, cands) == \E p \in cands : branch[p] = "failed"

raceNeverRejected(branch, cands) == FALSE

raceAllRejected(branch, cands) == \A p \in cands : branch[p] = "failed"

\* abortController.abort(): every still pending promise is rejected
abortNothing(branch) == branch

abortPending(branch) ==
  [p \in P |-> IF branch[p] = "inflight" THEN "cancelled" ELSE branch[p]]

\* a raced adapter call rejects by itself
BranchReject(c, p, kind) ==
  /\ call[c].branch[p] = "inflight"
  /\ call' = [call EXCEPT ![c] =
        [@ EXCEPT !.branch[p] = IF kind = "aborted" THEN "rejAborted" ELSE "rejPlain",
                  !.inflight = @ \ {p},
                  !.late = IF call[c].pc = "racing" THEN @ ELSE @ \cup {p}]]
  /\ fresh' = FALSE
  /\ UNCHANGED <<now, initialized, config, registry, descs, metrics, lim, snapshot, warned>>

\* the catch handler of one racePromise; after the last one Promise.any
\* rejects and route() throws
BranchCatch(c, p) ==
  /\ call[c].branch[p] \in {"rejPlain", "rejAborted"}
  /\ LET kind == IF call[c].branch[p] = "rejAborted" THEN "aborted" ELSE "plain"
         attempts == IF recordsFailure(kind)
                     THEN Append(call[c].attempts, failedAttempt(p))
                     ELSE call[c].attempts
         branch == [call[c].branch EXCEPT ![p] = "failed"]
         allFailed == call[c].pc = "racing"
                      /\ raceAllRejected(branch, Range(call[c].sel))
     IN  call' = [call EXCEPT ![c] =
           [@ EXCEPT !.attempts = attempts,
                     !.branch = IF allFailed THEN abortPending(branch) ELSE branch,
                     !.pc = IF allFailed THEN "threw" ELSE @,
                     !.err = IF allFailed THEN "AllProvidersFailed" ELSE @]]
  /\ fresh' = FALSE
  /\ UNCHANGED <<now, initialized, config, registry, descs, metrics, lim, snapshot, warned>>

\* a raced adapter call resolves while no winner is chosen: Promise.any
\* resolves with it and route() continues to its return
RaceWin(c, p, tok) ==
  /\ call[c].pc = "racing"
  /\ call[c].branch[p] = "inflight"
  /\ LET resp == [tokens |-> tok, cost |-> calculateCost(tok, call[c].adapters[p])]
         sc == specConfigOf(config)
     IN  /\ \E duration \in Durations :
               LET m1 == updateMetrics(metrics, p, resp, duration, now)
               IN  metrics' = IF sc.enableCostTracking
                              THEN updateSpeculativeMetrics(m1, Len(call[c].sel),
                                                            duration, resp.cost)
                              ELSE m1
         /\ lim' = recordUsage(lim, resp.tokens, now)
         /\ call' = [call EXCEPT ![c] =
               [@ EXCEPT !.pc = "returned",
                         !.attempts = Append(@, successAttempt(p)),
                         !.branch = abortPending([call[c].branch EXCEPT ![p] = "won"]),
                         !.inflight = @ \ {p},
                         !.firstOk = IF @ = "none" THEN p ELSE @,
                         !.result = [provider |-> p, fallbackTriggered |-> FALSE,
                                     totalCost |-> resp.cost, tokens |-> resp.tokens]]]
  /\ fresh' = FALSE
  /\ UNCHANGED <<now, initialized, config, registry, descs, snapshot, warned>>

\* an adapter that did not honour the cancellation completes later:
\* resolve/reject of the already rejected promise has no effect
LateComplete(c, p, ok) ==
  /\ call[c].branch[p] = "cancelled"
  /\ p \in call[c].inflight
  /\ call' = [call EXCEPT ![c] =
        [@ EXCEPT !.inflight = @ \ {p},
                  !.late = @ \cup {p},
                  !.firstOk = IF ok /\ @ = "none" THEN p ELSE @]]
  /\ fresh' = FALSE
  /\ UNCHANGED <<now, initialized, config, registry, descs, metrics, lim, snapshot, warned>>

Init == InitWith(SequentialStrategies, {AllEnabled, OneDisabled})

Next ==
  \/ Tick
  \/ Initialize
  \/ \E c \in Calls, req \in Requests : RouteStart(c, req)
  \/ \E c \in Calls, tok \in RespTokens : SeqSuccess(c, tok)
  \/ \E c \in Calls : SeqFail(c)

\* sequential strategies
Spec == Init /\ [][Next]_vars

InitRace == InitWith({"speculative"}, {AllEnabled})

\* the clock stands still: the calls of a run fall into the same windows
NextRace ==
  \/ Initialize
  \/ \E c \in Calls, req \in Requests : RouteStart(c, req)
  \/ \E c \in Calls, p \in P, kind \in ErrorKinds : BranchReject(c, p, kind)
  \/ \E c \in Calls, p \in P : BranchCatch(c, p)
  \/ \E c \in Calls, p \in P, tok \in RespTokens : RaceWin(c, p, tok)
  \/ \E c \in Calls, p \in P, ok \in BOOLEAN : LateComplete(c, p, ok)

\* the speculative strategy
SpecRace == InitRace /\ [][NextRace]_vars

\* The catch handler of a rejected racePromise is a promise reaction: the
\* event loop runs it once the promise has rejected. Nothing is assumed of
\* the adapters, whose calls may stay pending forever.
InitRaceLive ==
  /\ InitRace
  /\ config.fallbackEnabled
  /\ config.speculativeConfig = NoSpeculativeConfig

\* races of one request; what a rejection's message says is immaterial here
NextRaceLive ==
  \/ Initialize
  \/ \E c \in Calls : RouteStart(c, [promptLen |-> 4, msgLens |-> <<>>, maxTokens |-> 1])
  \/ \E c \in Calls, p \in P : BranchReject(c, p, "plain")
  \/ \E c \in Calls, p \in P : BranchCatch(c, p)
  \/ \E c \in Calls, p \in P, tok \in RespTokens : RaceWin(c, p, tok)
  \/ \E c \in Calls, p \in P, ok \in BOOLEAN : LateComplete(c, p, ok)

SpecRaceLive ==
  /\ InitRaceLive /\ [][NextRaceLive]_vars
  /\ \A c \in Calls : \A p \in P : WF_vars(BranchCatch(c, p))

\* ------------------------------------------------------------ routeStream()
notInitializedNever(init) == FALSE

\* if (!this.initialized) throw ...
notInitialized(init) == ~init

\* the synchronous prefix of routeStream(): selection, first chatStream call
StreamStart(c, req) ==
  /\ call[c].pc = "idle"
  /\ IF c = 1 THEN TRUE ELSE call[c - 1].pc # "idle"
  /\ fresh' = FALSE
  /\ UNCHANGED <<now, initialized, config, registry, descs, metrics, lim, snapshot, warned>>
  /\ LET sel == selectProviders(config.strategy, registry, descs)
         seen == Len(recentRequests(lim, now))
     IN  IF notInitialized(initialized)
           THEN call' = [call EXCEPT ![c] =
                  [@ EXCEPT !.pc = "threw", !.err = "NotInitialized", !.stream = TRUE]]
         ELSE IF sel = <<>>
           THEN call' = [call EXCEPT ![c] =
                  [@ EXCEPT !.pc = "threw", !.err = "NoProviders",
                            !.gateSeen = seen, !.stream = TRUE]]
         ELSE call' = [call EXCEPT ![c] =
                  [@ EXCEPT !.pc = "streaming", !.sel = sel, !.idx = 1,
                            !.inflight = {sel[1]}, !.called = <<sel[1]>>,
                               !.adapters = [@ EXCEPT ![sel[1]] = descs[sel[1]]],
                            !.gateSeen = seen, !.stream = TRUE]]

\* the awaited chatStream() of candidate idx resolved
StreamSuccess(c, tok) ==
  /\ call[c].pc = "streaming"
  /\ LET p == call[c].sel[call[c].idx]
         resp == [tokens |-> tok, cost |-> calculateCost(tok, call[c].adapters[p])]
     IN  /\ \E duration \in Durations :
                 metrics' = updateMetrics(metrics, p, resp, duration, now)
         /\ lim' = recordUsage(lim, resp.tokens, now)
         /\ call' = [call EXCEPT ![c] =
               [@ EXCEPT !.pc = "returned",
                         !.attempts = Append(@, successAttempt(p)),
                         !.inflight = {},
                         !.result = [provider |-> p, fallbackTriggered |-> FALSE,
                                     totalCost |-> resp.cost, tokens |-> resp.tokens]]]
  /\ fresh' = FALSE
  /\ UNCHANGED <<now, initialized, config, registry, descs, snapshot, warned>>

\* the awaited chatStream() of candidate idx rejected
StreamFail(c) ==
  /\ call[c].pc = "streaming"
  /\ LET p == call[c].sel[call[c].idx]
         attempts == Append(call[c].attempts, failedAttempt(p))
         after == seqAfterFailure(config, call[c].idx, call[c].sel)
         nxt == seqNextIndex(call[c].idx)
     IN  call' = [call EXCEPT ![c] =
           CASE after = "throw" ->
                  [@ EXCEPT !.pc = "threw", !.err = "EndpointFailure",
                            !.attempts = attempts, !.inflight = {}]
             [] after = "next" ->
                  [@ EXCEPT !.idx = nxt, !.attempts = attempts,
                            !.inflight = {call[c].sel[nxt]},
                            !.called = Append(@, call[c].sel[nxt]),
                            !.adapters = [@ EXCEPT ![call[c].sel[nxt]] =
                                            descs[call[c].sel[nxt]]]]
             [] after = "allFailed" ->
                  [@ EXCEPT !.pc = "threw", !.err = "AllProvidersFailed",
                            !.attempts = attempts, !.inflight = {}]]
  /\ fresh' = FALSE
  /\ UNCHANGED <<now, initialized, config, registry, descs, metrics, lim, snapshot, warned>>

\* a request without maxTokens is estimated at 500 output tokens
ModeRequests == Requests \cup {[promptLen |-> 4, msgLens |-> <<>>, maxTokens |-> 0]}

NoneEnabled ==
  [p \in P |-> CASE p = "p1" -> Descriptor(FALSE, 15, 500, 20, 99)
              [] p = "p2" -> Descriptor(FALSE, 25, 50, 10, 99)
              [] p = "p3" -> Descriptor(FALSE, 0, 2000, 30, 95)]

InitModes ==
  /\ now = 0
  /\ initialized = FALSE
  /\ config \in [strategy : AllStrategies, fallbackEnabled : BOOLEAN,
                 budgetLimits : BudgetConfigs, rateLimits : RateConfigs,
                 speculativeConfig : {NoSpeculativeConfig}]
  /\ registry = ProviderIds
  /\ descs \in {OneDisabled, NoneEnabled}
  /\ metrics = resetMetrics(registry)
  /\ lim = EmptyLimiter
  /\ call = [c \in Calls |-> IdleCall]
  /\ snapshot = NoSnapshot
  /\ fresh = FALSE
  /\ warned = {}

\* the clock stands still: every call falls into the same windows
NextModes ==
  \/ Initialize
  \/ \E c \in Calls, req \in ModeRequests : RouteStart(c, req)
  \/ \E c \in Calls, tok \in RespTokens : SeqSuccess(c, tok)
  \/ \E c \in Calls : SeqFail(c)
  \/ \E c \in Calls, p \in P, kind \in ErrorKinds : BranchReject(c, p, kind)
  \/ \E c \in Calls, p \in P : BranchCatch(c, p)
  \/ \E c \in Calls, p \in P, tok \in RespTokens : RaceWin(c, p, tok)
  \/ \E c \in Calls, p \in P, ok \in BOOLEAN : LateComplete(c, p, ok)
  \/ \E c \in Calls, req \in ModeRequests : StreamStart(c, req)
  \/ \E c \in Calls, tok \in RespTokens : StreamSuccess(c, tok)
  \/ \E c \in Calls : StreamFail(c)

\* route() and routeStream() under every strategy
SpecModes == InitModes /\ [][NextModes]_vars

\* ------------------------------------------------------- the usage limiter
\* Date.now() readings around the ends of the three windows
LimiterInstants ==
  {0, MinuteWindow - 1, MinuteWindow, DayWindow - 1, DayWindow, MonthWindow}

LimiterRespTokens == {2, 3}

\* ceilings in tokens and in units of 1e-8 dollar; 0 is "unlimited"
LimiterBudgetConfigs ==
  {NoBudgetLimits} \cup
  [present : {TRUE}, dailyTokens : {0, 5}, dailyCost : {0, 400},
   monthlyTokens : {0, 6}, monthlyCost : {0, 700}]

LimiterRateConfigs ==
  {NoRateLimits} \cup
  [present : {TRUE}, requestsPerMinute : {0, 1, 2}, tokensPerMinute : {0, 3}]

\* one enabled endpoint
SingleEndpoint ==
  [p \in P |-> CASE p = "p1" -> Descriptor(TRUE, 15, 500, 20, 99)
              [] p = "p2" -> Descriptor(FALSE, 25, 50, 10, 99)
              [] p = "p3" -> Descriptor(FALSE, 0, 2000, 30, 95)]

\* the engine after initialize()
InitLimiter ==
  /\ now = 0
  /\ initialized = TRUE
  /\ config \in [strategy : {"priority"}, fallbackEnabled : {TRUE},
                 budgetLimits : LimiterBudgetConfigs, rateLimits : LimiterRateConfigs,
                 speculativeConfig : {NoSpeculativeConfig}]
  /\ config.budgetLimits = NoBudgetLimits \/ config.rateLimits = NoRateLimits
  /\ registry = ProviderIds
  /\ descs = SingleEndpoint
  /\ metrics = resetMetrics(registry)
  /\ lim = EmptyLimiter
  /\ call = [c \in Calls |-> IdleCall]
  /\ snapshot = NoSnapshot
  /\ fresh = FALSE
  /\ warned = {}

\* the clock is read later
LimiterTick ==
  /\ \E t \in LimiterInstants : t > now /\ now' = t
  /\ UNCHANGED <<initialized, config, registry, descs, metrics, lim, call, snapshot, fresh, warned>>

NextLimiter ==
  \/ LimiterTick
  \/ \E c \in Calls, req \in ModeRequests : RouteStart(c, req)
  \/ \E c \in Calls, tok \in LimiterRespTokens : SeqSuccess(c, tok)
  \/ \E c \in Calls : SeqFail(c)

\* route() calls over every budget and rate configuration and window end
SpecLimiter == InitLimiter /\ [][NextLimiter]_vars

\* ------------------------------------------------- candidate selection only
\* declared attributes with ties on cost, latency and priority
SelectProfiles ==
  { Descriptor(en, 15, 500, 10, 99) : en \in BOOLEAN } \cup
  { Descriptor(en, 25, 50, 20, 99) : en \in BOOLEAN } \cup
  { Descriptor(en, 0, 2000, 30, 95) : en \in BOOLEAN } \cup
  { Descriptor(en, 15, 50, 10, 90) : en \in BOOLEAN }

SelectTables == [P -> SelectProfiles]

SelectSpeculativeConfigs ==
  {NoSpeculativeConfig} \cup
  [present : {TRUE}, candidateCount : 1..MaxCandidateCount,
   candidateStrategy : {"speed", "quality", "balanced"},
   enableCostTracking : {TRUE}]

InitSelect ==
  /\ now = 0
  /\ initialized = FALSE
  /\ config \in [strategy : AllStrategies, fallbackEnabled : {TRUE},
                 budgetLimits : {NoBudgetLimits}, rateLimits : {NoRateLimits},
                 speculativeConfig : SelectSpeculativeConfigs]
  /\ config.strategy # "speculative" => config.speculativeConfig = NoSpeculativeConfig
  /\ registry = ProviderIds
  /\ descs \in SelectTables
  /\ metrics = resetMetrics(registry)
  /\ lim = EmptyLimiter
  /\ call = [c \in Calls |-> IdleCall]
  /\ snapshot = NoSnapshot
  /\ fresh = FALSE
  /\ warned = {}

NextSelect ==
  \/ Initialize
  \/ \E c \in Calls, req \in Requests : RouteStart(c, req)

\* route() up to its first adapter call(s), over every descriptor table
SpecSelect == InitSelect /\ [][NextSelect]_vars

\* --------------------------------------------------- the balanced strategy
\* pairs of endpoints that differ in one declared field only, and one
\* disabled endpoint
BalancedProfiles ==
  { Descriptor(TRUE, 15, 500, 10, 99), Descriptor(TRUE, 15, 500, 10, 90),
    Descriptor(TRUE, 25, 500, 10, 99), Descriptor(TRUE, 15, 50, 10, 99),
    Descriptor(TRUE, 15, 500, 20, 99), Descriptor(FALSE, 0, 50, 10, 99) }

BalancedTables ==
  {t \in [P -> BalancedProfiles] : t["p1"] = Descriptor(TRUE, 15, 500, 10, 99)}

InitBalanced ==
  /\ now = 0
  /\ initialized = FALSE
  /\ config \in [strategy : {"balanced"}, fallbackEnabled : {TRUE},
                 budgetLimits : BudgetConfigs, rateLimits : {NoRateLimits},
                 speculativeConfig : {NoSpeculativeConfig}]
  /\ registry = ProviderIds
  /\ descs \in BalancedTables
  /\ metrics = resetMetrics(registry)
  /\ lim = EmptyLimiter
  /\ call = [c \in Calls |-> IdleCall]
  /\ snapshot = NoSnapshot
  /\ fresh = FALSE
  /\ warned = {}

\* sequential routing under the balanced strategy
SpecBalanced == InitBalanced /\ [][Next]_vars

\* ------------------------------------------------ registration and metrics
\* a registry that is a list: the id is appended even if it is present
registerProviderAppend(reg, ds, m, p, d) ==
  [registry |-> Append(reg, p),
   descs |-> [ds EXCEPT ![p] = d],
   metrics |-> setEmptyProviderMetrics(m, p)]

\* registerProvider(): Map.set keeps the position of a key that is present

registerProvider(reg, ds, m, p, d) ==
  [registry |-> IF p \in Range(reg) THEN reg ELSE Append(reg, p),
   descs |-> [ds EXCEPT ![p] = d],
   metrics |-> setEmptyProviderMetrics(m, p)]

RegisterProvider(p, d) ==
  /\ LET r == registerProvider(registry, descs, metrics, p, d)
     IN  /\ registry' = r.registry
         /\ descs' = r.descs
         /\ metrics' = r.metrics
  /\ snapshot' = detach(snapshot, metrics, {p})
  /\ fresh' = FALSE
  /\ UNCHANGED <<now, initialized, config, lim, call, warned>>

\* ------------------------------------------------------- the race metrics
RaceMetricsConfigs ==
  { NoSpeculativeConfig,
    [present |-> TRUE, candidateCount |-> 2, candidateStrategy |-> "speed",
     enableCostTracking |-> FALSE] }

\* only p1 is registered
OnlyFirst ==
  [p \in P |-> IF p = "p1" THEN Descriptor(TRUE, 15, 500, 20, 99) ELSE NoAdapter]

LateDescriptors == {Descriptor(TRUE, 25, 50, 10, 99)}

InitRaceMetrics ==
  /\ now = 0
  /\ initialized = TRUE
  /\ config \in [strategy : {"speculative"}, fallbackEnabled : {TRUE},
                 budgetLimits : {NoBudgetLimits}, rateLimits : {NoRateLimits},
                 speculativeConfig : RaceMetricsConfigs]
  /\ registry = <<"p1">>
  /\ descs = OnlyFirst
  /\ metrics = resetMetrics(registry)
  /\ lim = EmptyLimiter
  /\ call = [c \in Calls |-> IdleCall]
  /\ snapshot = NoSnapshot
  /\ fresh = FALSE
  /\ warned = {}

NextRaceMetrics ==
  \/ \E d \in LateDescriptors : RegisterProvider("p2", d)
  \/ \E c \in Calls, req \in Requests : RouteStart(c, req)
  \/ \E c \in Calls, p \in P, kind \in {"plain"} : BranchReject(c, p, kind)
  \/ \E c \in Calls, p \in P : BranchCatch(c, p)
  \/ \E c \in Calls, p \in P, tok \in RespTokens : RaceWin(c, p, tok)
  \/ \E c \in Calls, p \in P, ok \in BOOLEAN : LateComplete(c, p, ok)

\* race-mode calls while a second endpoint is registered
SpecRaceMetrics == InitRaceMetrics /\ [][NextRaceMetrics]_vars

\* ----------------------------------------------- the registry and snapshots
ResetMetrics ==
  /\ metrics' = resetMetrics(registry)
  /\ snapshot' = detach(snapshot, metrics, P)
  /\ fresh' = TRUE
  /\ UNCHANGED <<now, initialized, config, registry, descs, lim, call, warned>>

GetMetrics ==
  /\ snapshot' = getMetrics(metrics, fresh, registry)
  /\ fresh' = FALSE
  /\ UNCHANGED <<now, initialized, config, registry, descs, metrics, lim, call, warned>>

RegistryIds == {"p1", "p2"}

RegistryRequests == {[promptLen |-> 4, msgLens |-> <<>>, maxTokens |-> 1]}

InitRegistry ==
  /\ now = 0
  /\ initialized = TRUE
  /\ config \in [strategy : {"priority"}, fallbackEnabled : {TRUE},
                 budgetLimits : {NoBudgetLimits}, rateLimits : {NoRateLimits},
                 speculativeConfig : {NoSpeculativeConfig}]
  /\ registry = <<"p1">>
  /\ descs = OnlyFirst
  /\ metrics = resetMetrics(registry)
  /\ lim = EmptyLimiter
  /\ call = [c \in Calls |-> IdleCall]
  /\ snapshot = NoSnapshot
  /\ fresh = FALSE
  /\ warned = {}

NextRegistry ==
  \/ \E p \in RegistryIds, d \in LateDescriptors : RegisterProvider(p, d)
  \/ ResetMetrics
  \/ \E c \in Calls, req \in RegistryRequests : RouteStart(c, req)
  \/ \E c \in Calls, tok \in RespTokens : SeqSuccess(c, tok)
  \/ \E c \in Calls : SeqFail(c)

\* registration and reset between sequential calls
SpecRegistry == InitRegistry /\ [][NextRegistry]_vars

NextSnapshot ==
  \/ \E d \in LateDescriptors : RegisterProvider("p1", d)
  \/ ResetMetrics
  \/ GetMetrics
  \/ \E c \in Calls, req \in RegistryRequests : RouteStart(c, req)
  \/ \E c \in Calls, tok \in RespTokens : SeqSuccess(c, tok)
  \/ \E c \in Calls : SeqFail(c)
  \/ \E c \in Calls, req \in RegistryRequests : StreamStart(c, req)
  \/ \E c \in Calls, tok \in RespTokens : StreamSuccess(c, tok)
  \/ \E c \in Calls : StreamFail(c)

\* a caller that holds on to a getMetrics() result while the router works
SpecSnapshot == InitRegistry /\ [][NextSnapshot]_vars

\* ------------------------------------------- a caller of the TokenLimiter
\* The limiter used on its own. A slot of call records one operation of the
\* caller: pc is the method that ran, result.tokens what was recorded.
RecordUsage(c, tok) ==
  /\ call[c].pc = "idle"
  /\ IF c = 1 THEN TRUE ELSE call[c - 1].pc # "idle"
  /\ lim' = recordUsage(lim, tok, now)
  /\ call' = [call EXCEPT ![c] =
        [@ EXCEPT !.pc = "recordUsage", !.result = [NoResult EXCEPT !.tokens = tok]]]
  /\ fresh' = FALSE
  /\ UNCHANGED <<now, initialized, config, registry, descs, metrics, snapshot, warned>>

ResetDailyUsage(c) ==
  /\ call[c].pc = "idle"
  /\ IF c = 1 THEN TRUE ELSE call[c - 1].pc # "idle"
  /\ lim' = resetDailyUsage(lim)
  /\ call' = [call EXCEPT ![c] = [@ EXCEPT !.pc = "resetDailyUsage"]]
  /\ fresh' = FALSE
  /\ UNCHANGED <<now, initialized, config, registry, descs, metrics, snapshot, warned>>

ResetMonthlyUsage(c) ==
  /\ call[c].pc = "idle"
  /\ IF c = 1 THEN TRUE ELSE call[c - 1].pc # "idle"
  /\ lim' = resetMonthlyUsage(lim)
  /\ call' = [call EXCEPT ![c] = [@ EXCEPT !.pc = "resetMonthlyUsage"]]
  /\ fresh' = FALSE
  /\ UNCHANGED <<now, initialized, config, registry, descs, metrics, snapshot, warned>>

ResetAllUsage(c) ==
  /\ call[c].pc = "idle"
  /\ IF c = 1 THEN TRUE ELSE call[c - 1].pc # "idle"
  /\ lim' = resetAllUsage(lim)
  /\ call' = [call EXCEPT ![c] = [@ EXCEPT !.pc = "resetAllUsage"]]
  /\ fresh' = FALSE
  /\ UNCHANGED <<now, initialized, config, registry, descs, metrics, snapshot, warned>>

CheckRateLimits(c) ==
  /\ call[c].pc = "idle"
  /\ IF c = 1 THEN TRUE ELSE call[c - 1].pc # "idle"
  /\ call' = [call EXCEPT ![c] =
        [@ EXCEPT !.pc = "checkRateLimits",
                  !.check = checkRateLimits(lim, config.rateLimits, now)]]
  /\ fresh' = FALSE
  /\ UNCHANGED <<now, initialized, config, registry, descs, metrics, lim, snapshot, warned>>

NextLimiterClient ==
  \/ LimiterTick
  \/ \E c \in Calls : CheckRateLimits(c)
  \/ \E c \in Calls, tok \in LimiterRespTokens : RecordUsage(c, tok)
  \/ \E c \in Calls : ResetDailyUsage(c)
  \/ \E c \in Calls : ResetMonthlyUsage(c)
  \/ \E c \in Calls : ResetAllUsage(c)

\* recordUsage and the three resets under every configuration and window end
SpecLimiterClient == InitLimiter /\ [][NextLimiterClient]_vars

\* ------------------------------------------------- calls one after another
SerialRateConfigs ==
  [present : {TRUE}, requestsPerMinute : {1, 2}, tokensPerMinute : {0}]

InitSerial ==
  /\ now = 0
  /\ initialized = TRUE
  /\ config \in [strategy : {"priority"}, fallbackEnabled : BOOLEAN,
                 budgetLimits : {NoBudgetLimits}, rateLimits : SerialRateConfigs,
                 speculativeConfig : {NoSpeculativeConfig}]
  /\ registry = ProviderIds
  /\ descs = OneDisabled
  /\ metrics = resetMetrics(registry)
  /\ lim = EmptyLimiter
  /\ call = [c \in Calls |-> IdleCall]
  /\ snapshot = NoSnapshot
  /\ fresh = FALSE
  /\ warned = {}

\* no route() call is between its start and its end
NoCallInProgress == \A c \in Calls : call[c].pc \in {"idle", "returned", "threw"}

\* the caller awaits each route() before the next one
SerialRouteStart(c, req) ==
  /\ NoCallInProgress
  /\ RouteStart(c, req)

NextSerial ==
  \/ LimiterTick
  \/ \E c \in Calls, req \in RegistryRequests : SerialRouteStart(c, req)
  \/ \E c \in Calls, tok \in RespTokens : SeqSuccess(c, tok)
  \/ \E c \in Calls : SeqFail(c)

\* route() calls that do not overlap, under a request-rate ceiling
SpecSerial == InitSerial /\ [][NextSerial]_vars


\* ------------------------------------------------ availability reports
\* what the adapters' isAvailable() may resolve to
AvailabilityReports == [P -> BOOLEAN]

NextInit ==
  \/ \E available \in AvailabilityReports : InitializeWith(available)
  \/ \E c \in Calls, req \in Requests : RouteStart(c, req)
  \/ \E c \in Calls, tok \in RespTokens : SeqSuccess(c, tok)
  \/ \E c \in Calls : SeqFail(c)

\* initialize() under every combination of availability reports, then
\* sequential route() calls
SpecInit == Init /\ [][NextInit]_vars

\* ================================================================ claims
Returned(c) == call[c].pc = "returned"

ReturnedCalls == {c \in Calls : Returned(c)}

FailedBefore(c, n) == \E i \in 1..(n - 1) : ~call[c].attempts[i].success

RateCeiling == config.rateLimits.requestsPerMinute

\* C1: a route() call that fails at the gate (BudgetExceeded or RateLimited)
\* has called no adapter and recorded no attempt, the step that throws leaves
\* the metrics and the limiter's four lists as they were, and the call does
\* nothing afterwards.
C1_GateFailureTouchesNothing ==
  [][\A c \in Calls :
       /\ (call[c].pc = "idle" /\ call'[c].pc = "threw" /\ call'[c].err \in GateErrors)
            => /\ metrics' = metrics
               /\ lim' = lim
               /\ call'[c].called = <<>>
               /\ call'[c].attempts = <<>>
               /\ call'[c].inflight = {}
       /\ (call[c].pc = "threw" /\ call[c].err \in GateErrors)
            => call'[c] = call[c]]_vars

C1_Witness ==
  /\ metrics.totalRequests > 0
  /\ \E c \in Calls : call[c].pc = "threw" /\ call[c].err = "BudgetExceeded"

C3_FirstSuccessWins ==
  \A c \in Calls :
    LET raced == Range(call[c].sel)
    IN  /\ Returned(c) =>
             /\ call[c].result.provider \in raced
             /\ call[c].result.provider = call[c].firstOk
             /\ {p \in P : call[c].branch[p] = "won"} = {call[c].result.provider}
             /\ Cardinality({i \in 1..Len(call[c].attempts) :
                               call[c].attempts[i].success}) = 1
             /\ \A i \in 1..Len(call[c].attempts) :
                  call[c].attempts[i].success
                    => call[c].attempts[i].provider = call[c].result.provider
        /\ (call[c].pc = "threw" /\ call[c].err = "AllProvidersFailed") =>
             /\ call[c].firstOk = "none"
             /\ \A p \in raced : call[c].branch[p] = "failed"
        /\ call[c].pc = "racing" => \E p \in raced : call[c].branch[p] # "failed"

C3_Witness ==
  \E c \in Calls :
    /\ Returned(c) /\ ~config.fallbackEnabled
    /\ \E p \in P : call[c].branch[p] = "failed"
    /\ Len(call[c].attempts) = 2 /\ ~call[c].attempts[1].success

\* C4: in race mode every returned call is accounted exactly once, for its
\* winner: the success counters, the race counter and the limiter's ledgers
\* count the returned calls and nothing else, and an adapter that completes
\* after the call ended appears neither as the winner nor in the attempts.
C4_RaceAccountedOnce ==
  /\ metrics.totalRequests = Cardinality(ReturnedCalls)
  /\ \A p \in P :
       /\ metrics.providerMetrics[p].successCount
            = Cardinality({c \in ReturnedCalls : call[c].result.provider = p})
       /\ metrics.providerMetrics[p].requestCount
            = metrics.providerMetrics[p].successCount
  /\ metrics.speculativeExecutionMetrics.totalSpeculativeRequests
       = Cardinality(ReturnedCalls)
  /\ Len(lim.monthlyUsage) = Cardinality(ReturnedCalls)
  /\ Len(lim.dailyUsage) = Cardinality(ReturnedCalls)
  /\ Len(lim.requestHistory) <= Cardinality(ReturnedCalls)
  /\ Len(lim.tokenUsageHistory) <= Cardinality(ReturnedCalls)
  /\ \A c \in Calls :
       /\ call[c].result.provider \notin call[c].late
       /\ \A i \in 1..Len(call[c].attempts) :
            call[c].attempts[i].provider \notin call[c].late

C4_Witness ==
  \E c \in Calls :
    /\ Returned(c) /\ call[c].late # {} /\ call[c].inflight = {}
    /\ metrics.totalRequests = 1

\* C5: the gate admits a call on the recorded requests alone (fewer than the
\* requestsPerMinute ceiling in the window) and an admitted call holds no
\* reservation until it records its usage; so calls admitted together on an
\* empty window all record, and the window then holds more than the ceiling
\* (the state C5_Overshoot).
C5_GateSeesRecordedOnly ==
  /\ \A c \in Calls :
       call[c].pc \in {"trying", "returned"} \/ call[c].attempts # <<>>
         => call[c].gateSeen >= 0 /\ call[c].gateSeen < RateCeiling
  /\ Len(lim.requestHistory) <= Cardinality(ReturnedCalls)

C5_Overshoot ==
  /\ RateCeiling > 0
  /\ \A c \in Calls : Returned(c) /\ call[c].gateSeen = 0
  /\ Len(recentRequests(lim, now)) > RateCeiling

\* C6: sequential route() with fallback disabled: the step in which the first
\* candidate fails ends the call with that endpoint failure, with exactly one
\* failed attempt, only the first candidate called and the limiter untouched,
\* and the call does nothing afterwards.
C6_NoFallbackPropagates ==
  [][\A c \in Calls :
       /\ (~config.fallbackEnabled /\ call[c].pc = "trying"
           /\ call'[c].attempts # call[c].attempts
           /\ ~call'[c].attempts[Len(call'[c].attempts)].success)
            => /\ call'[c].pc = "threw" /\ call'[c].err = "EndpointFailure"
               /\ call'[c].attempts = <<failedAttempt(call[c].sel[1])>>
               /\ call'[c].called = <<call[c].sel[1]>>
               /\ call'[c].inflight = {}
               /\ lim' = lim
       /\ (call[c].pc = "threw" /\ call[c].err = "EndpointFailure")
            => call'[c] = call[c]]_vars

C6_Witness ==
  \E c \in Calls :
    /\ ~config.fallbackEnabled
    /\ call[c].pc = "threw" /\ call[c].err = "EndpointFailure"
    /\ Len(selectProviders(config.strategy, registry, descs)) > 1

\* C7: sequential route() with fallback enabled fails with AllProvidersFailed
\* exactly when every candidate has been tried and has failed, and the
\* attempts then hold one failed entry per enabled endpoint, in selector order.
C7_AllFailedCarriesAllAttempts ==
  \A c \in Calls :
    LET order == selectProviders(config.strategy, registry, descs)
        allTriedAndFailed ==
          /\ Len(call[c].attempts) = Len(order)
          /\ \A i \in 1..Len(order) : call[c].attempts[i] = failedAttempt(order[i])
    IN  /\ (call[c].pc = "threw" /\ call[c].err = "AllProvidersFailed")
             => /\ allTriedAndFailed
                /\ Range(order) = {p \in P : descs[p].enabled}
        /\ (config.fallbackEnabled /\ call[c].attempts # <<>> /\ allTriedAndFailed)
             => call[c].pc = "threw" /\ call[c].err = "AllProvidersFailed"

C7_Witness ==
  \E c \in Calls :
    /\ call[c].pc = "threw" /\ call[c].err = "AllProvidersFailed"
    /\ Len(call[c].attempts) = 3

\* C8: a race-mode call in which every raced candidate failed fails with
\* AllProvidersFailed and carries one failed attempt per raced candidate;
\* only the raced candidates were called.
C8_RaceAllFailedCarriesAll ==
  \A c \in Calls :
    (call[c].pc = "threw" /\ call[c].err = "AllProvidersFailed") =>
      /\ Len(call[c].attempts) = Len(call[c].sel)
      /\ \A i \in 1..Len(call[c].attempts) : ~call[c].attempts[i].success
      /\ {call[c].attempts[i].provider : i \in 1..Len(call[c].attempts)}
           = Range(call[c].sel)
      /\ call[c].called = call[c].sel

\* C9: in a returned sequential call fallbackTriggered is true exactly when an
\* earlier attempt of the call failed.
C9_FallbackIffEarlierFailure ==
  \A c \in Calls :
    Returned(c) =>
      (call[c].result.fallbackTriggered
         <=> FailedBefore(c, Len(call[c].attempts)))

\* C10: in a sequential call the adapters are called in selector order, each
\* at most once, at most one call is in flight, and a candidate is called
\* only after every candidate before it has failed.
C10_OneAtATimeInOrder ==
  \A c \in Calls :
    LET order == selectProviders(config.strategy, registry, descs)
        k == Len(call[c].called)
    IN  /\ k <= Len(order)
        /\ call[c].called = SubSeq(order, 1, k)
        /\ \A i, j \in 1..k : i # j => call[c].called[i] # call[c].called[j]
        /\ Cardinality(call[c].inflight) <= 1
        /\ call[c].pc = "trying" =>
             /\ call[c].inflight = {call[c].called[k]}
             /\ Len(call[c].attempts) = k - 1
             /\ \A i \in 1..(k - 1) : call[c].attempts[i] = failedAttempt(order[i])
        /\ call[c].pc # "trying" => call[c].inflight = {} /\ Len(call[c].attempts) = k

C10_Witness ==
  \E c \in Calls :
    /\ call[c].pc = "trying"
    /\ Len(call[c].called) = 3

\* C11: in a returned race-mode call the attempts hold exactly one successful
\* entry, the winner's, one failed entry for every raced candidate whose own
\* call failed before the winner was chosen (and whose catch handler has
\* run), and no entry for a candidate that the engine cancelled.
C11_RaceAttemptsLog ==
  \A c \in Calls :
    Returned(c) =>
      LET failedEntries == {call[c].attempts[i].provider :
                              i \in {j \in 1..Len(call[c].attempts) :
                                       ~call[c].attempts[j].success}}
      IN  /\ Cardinality({i \in 1..Len(call[c].attempts) :
                            call[c].attempts[i].success}) = 1
          /\ \A p \in Range(call[c].sel) :
               /\ call[c].branch[p] = "failed" => p \in failedEntries
               /\ call[c].branch[p] \in {"cancelled", "won"} => p \notin failedEntries

\* C12: for the strategies cost, speed, quality, priority and fallback the
\* selected order is a permutation of exactly the enabled registered
\* endpoints, non-decreasing in declared cost (cost), declared latency (speed)
\* or priority rank (quality, priority, fallback), and quality, priority and
\* fallback give the same order.
C12_SelectionSorted ==
  \A c \in Calls :
    (call[c].pc = "trying"
     /\ config.strategy \in {"cost", "speed", "quality", "priority", "fallback"}) =>
      LET sel == call[c].sel
          key(p) == CASE config.strategy = "cost" -> descs[p].costPerMillionTokens
                      [] config.strategy = "speed" -> descs[p].latency
                      [] OTHER -> descs[p].priority
      IN  /\ Range(sel) = {p \in Range(registry) : descs[p].enabled}
          /\ Len(sel) = Cardinality(Range(sel))
          /\ \A i \in 1..(Len(sel) - 1) : key(sel[i]) <= key(sel[i + 1])
          /\ config.strategy \in {"quality", "priority", "fallback"} =>
               \A s \in {"quality", "priority", "fallback"} :
                 selectProviders(s, registry, descs) = sel

C12_Witness ==
  \E c \in Calls :
    /\ call[c].pc = "trying" /\ config.strategy = "cost"
    /\ call[c].sel = <<"p3", "p1", "p2">>
    /\ descs["p1"].costPerMillionTokens = descs["p2"].costPerMillionTokens
    /\ descs["p1"].latency > descs["p2"].latency

\* C13: in race mode the raced set is the first min(N, number of enabled
\* endpoints) identifiers of the sub-strategy's ordering of the enabled
\* endpoints, for N >= 1 and the sub-strategies speed, quality and balanced;
\* without a speculative configuration N is 2 and the sub-strategy is speed;
\* exactly the raced set's adapters are called.
C13_RacedSetIsPrefix ==
  \A c \in Calls :
    (call[c].pc = "racing" /\ config.strategy = "speculative") =>
      LET sc == config.speculativeConfig
          n == IF sc.present THEN sc.candidateCount ELSE 2
          sub == IF sc.present THEN sc.candidateStrategy ELSE "speed"
          order == selectProviders(sub, registry, descs)
          enabledCount == Cardinality({p \in Range(registry) : descs[p].enabled})
      IN  /\ call[c].sel = SubSeq(order, 1, Min(n, enabledCount))
          /\ call[c].called = call[c].sel
          /\ call[c].inflight = Range(call[c].sel)
          /\ \A p \in P : call[c].branch[p] # "none" <=> p \in Range(call[c].sel)

C13_Witness ==
  \E c \in Calls :
    /\ call[c].pc = "racing"
    /\ config.speculativeConfig.present
    /\ config.speculativeConfig.candidateStrategy = "balanced"
    /\ config.speculativeConfig.candidateCount = 2
    /\ Cardinality({p \in P : descs[p].enabled}) = 3
    /\ call[c].sel = <<"p3", "p1">>

\* C14: the balanced strategy orders the enabled endpoints non-increasing by
\* score = 0.4*(1 - cost/100) + 0.3*(1 - latency/10000)
\*       + 0.2*(1 - priority/100) + 0.1*availability
\* (here times 100000, cost in cents, availability in percent); the order is
\* a function of the descriptors alone, so every call of the engine selects
\* the same order whatever its request and whatever the metrics and the
\* limiter hold when it selects.
C14_BalancedByScore ==
  \A c \in Calls :
    call[c].sel # <<>> =>
      LET sel == call[c].sel
          score(p) == 40000 - 4 * descs[p].costPerMillionTokens
                      + 30000 - 3 * descs[p].latency
                      + 20000 - 200 * descs[p].priority
                      + 100 * descs[p].availability
      IN  /\ Range(sel) = {p \in Range(registry) : descs[p].enabled}
          /\ Len(sel) = Cardinality(Range(sel))
          /\ \A i \in 1..(Len(sel) - 1) : score(sel[i]) >= score(sel[i + 1])
          /\ \A d \in Calls : call[d].sel # <<>> => call[d].sel = sel

C14_Witness ==
  /\ descs["p2"] = Descriptor(TRUE, 15, 500, 10, 90)
  /\ descs["p3"] = Descriptor(TRUE, 15, 500, 10, 99)
  /\ call[1].pc = "returned" /\ call[1].gateSeen = 0
  /\ call[2].pc = "trying" /\ call[2].gateSeen = 1
  /\ metrics.totalRequests = 1
  /\ call[2].sel = <<"p1", "p3", "p2">>

\* C15: no adapter of a disabled endpoint is ever called, by route() or by
\* routeStream(), under any strategy; with no enabled endpoint a call calls
\* no adapter and fails, with NoProviders unless the engine is not
\* initialized or, in route(), the gate denies the request first.
C15_OnlyEnabledCalled ==
  \A c \in Calls :
    LET noneEnabled == \A p \in Range(registry) : ~descs[p].enabled
    IN  /\ \A i \in 1..Len(call[c].called) : descs[call[c].called[i]].enabled
        /\ \A p \in call[c].inflight : descs[p].enabled
        /\ \A i \in 1..Len(call[c].attempts) : descs[call[c].attempts[i].provider].enabled
        /\ \A p \in P : ~descs[p].enabled => call[c].branch[p] = "none"
        /\ (noneEnabled /\ call[c].pc # "idle") =>
             /\ call[c].pc = "threw"
             /\ call[c].called = <<>> /\ call[c].attempts = <<>>
             /\ call[c].err \in {"NotInitialized", "NoProviders"} \cup GateErrors
             /\ call[c].stream => call[c].err \in {"NotInitialized", "NoProviders"}

C15_Witness ==
  /\ \E p \in P : ~descs[p].enabled
  /\ call[1].pc = "threw" /\ call[1].err = "AllProvidersFailed" /\ ~call[1].stream
  /\ Len(call[1].called) = 2
  /\ call[2].pc = "returned" /\ call[2].stream /\ Len(call[2].called) = 2

\* C15 as stated: with no enabled endpoint every call of the initialized
\* engine fails with NoProviders.
C15_NoneEnabledFailsNoProviders ==
  \A c \in Calls :
    ((\A p \in Range(registry) : ~descs[p].enabled)
     /\ call[c].pc # "idle" /\ call[c].err # "NotInitialized")
      => call[c].pc = "threw" /\ call[c].err = "NoProviders"

\* C16: while the engine is not initialized, the step that starts a route()
\* or routeStream() call ends it with NotInitialized, with no adapter called,
\* no attempt recorded and the metrics and the limiter as they were, and the
\* call does nothing afterwards.
C16_NotInitializedFails ==
  [][\A c \in Calls :
       /\ (~initialized /\ call[c].pc = "idle" /\ call'[c].pc # "idle")
            => /\ call'[c].pc = "threw" /\ call'[c].err = "NotInitialized"
               /\ call'[c].called = <<>> /\ call'[c].inflight = {}
               /\ call'[c].attempts = <<>>
               /\ metrics' = metrics /\ lim' = lim
       /\ (call[c].pc = "threw" /\ call[c].err = "NotInitialized")
            => call'[c] = call[c]]_vars

C16_Witness ==
  /\ call[1].pc = "threw" /\ call[1].err = "NotInitialized" /\ call[1].stream
  /\ call[2].pc = "threw" /\ call[2].err = "NotInitialized" /\ ~call[2].stream
  /\ ~initialized

\* C20: a routeStream() call calls an adapter only if the rate check allows
\* it: fewer requests than the requestsPerMinute ceiling are recorded in the
\* window when the call starts.
C20_StreamIsGated ==
  \A c \in Calls :
    (call[c].stream /\ call[c].called # <<>>) =>
      (RateCeiling > 0 => call[c].gateSeen < RateCeiling)

\* C17: checkBudget denies a request exactly when a budget configuration is
\* supplied and, for some ceiling greater than zero, the total recorded in
\* that ceiling's window (24 hours, 30 days) plus the request's estimate
\* exceeds the ceiling; the reported scope is daily when a daily ceiling is
\* exceeded and monthly otherwise; without a configuration or with every
\* ceiling zero every request is allowed.
C17_BudgetCheckExact ==
  \A req \in ModeRequests :
    LET b == config.budgetLimits
        r == checkBudget(lim, b, req, now)
        est == estimateRequestTokens(req)
        day == UsageTotals(lim.monthlyUsage, now - DayWindow)
        month == UsageTotals(lim.monthlyUsage, now - MonthWindow)
        over(total, ceiling) == ceiling > 0 /\ total > ceiling
        dailyOver == \/ over(day.tokens + est, b.dailyTokens)
                     \/ over(day.cost + estimateCost(est), b.dailyCost)
        monthlyOver == \/ over(month.tokens + est, b.monthlyTokens)
                       \/ over(month.cost + estimateCost(est), b.monthlyCost)
    IN  /\ r.allowed <=> ~(b.present /\ (dailyOver \/ monthlyOver))
        /\ ~r.allowed => r.budgetType = (IF dailyOver THEN "daily" ELSE "monthly")
        /\ (b.dailyTokens = 0 /\ b.dailyCost = 0
            /\ b.monthlyTokens = 0 /\ b.monthlyCost = 0) => r.allowed

C17_Witness ==
  /\ config.budgetLimits.dailyTokens > 0 /\ config.budgetLimits.monthlyCost > 0
  /\ lim.monthlyUsage # <<>>
  /\ call[2].pc = "threw" /\ call[2].err = "BudgetExceeded"
  /\ \E req \in Requests :
       LET r == checkBudget(lim, config.budgetLimits, req, now)
       IN  ~r.allowed /\ r.budgetType = "monthly"
  /\ \E req \in Requests : checkBudget(lim, config.budgetLimits, req, now).allowed

\* C18: checkRateLimits denies exactly when a rate configuration is supplied
\* and either requestsPerMinute is positive and at least that many requests
\* were recorded in the last 60 seconds, or tokensPerMinute is positive and
\* at least that many tokens were recorded in the last 60 seconds.
C18_RateCheckExact ==
  LET rl == config.rateLimits
      r == checkRateLimits(lim, rl, now)
      lastMinute == SelectSeq(lim.monthlyUsage,
                              LAMBDA u : u.timestamp > now - MinuteWindow)
      requests == Len(lastMinute)
      tokens == SumSeq([i \in 1..Len(lastMinute) |-> lastMinute[i].tokens])
  IN  r.allowed <=>
        ~(rl.present
          /\ \/ (rl.requestsPerMinute > 0 /\ requests >= rl.requestsPerMinute)
             \/ (rl.tokensPerMinute > 0 /\ tokens >= rl.tokensPerMinute))

C18_Witness ==
  /\ config.rateLimits.requestsPerMinute = 2 /\ config.rateLimits.tokensPerMinute = 3
  /\ Len(lim.requestHistory) = 1
  /\ ~checkRateLimits(lim, config.rateLimits, now).allowed
  /\ call[2].pc = "threw" /\ call[2].err = "RateLimited"

\* C19: every recordUsage adds one entry, stamped with the current time, to
\* each of the four lists (after which the entries that left a list's window
\* are dropped) and raises dailyTokens and monthlyTokens of the usage
\* snapshot by the recorded total; while everything was recorded within the
\* last 24 hours the snapshot's dailyTokens and monthlyTokens both equal the
\* sum of the recorded totals.
C19_RecordUsageAccounted ==
  /\ [](now < DayWindow =>
          /\ getBudgetUsage(lim, now).dailyTokens = metrics.totalTokens
          /\ getBudgetUsage(lim, now).monthlyTokens = metrics.totalTokens)
  /\ [][\A c \in Calls :
          (call[c].pc = "trying" /\ call'[c].pc = "returned") =>
            \E total \in LimiterRespTokens :
              LET rec == [tokens |-> total, cost |-> estimateCost(total),
                          timestamp |-> now]
                  inWindow(list, window) ==
                    Cardinality({i \in 1..Len(list) :
                                   list[i].timestamp > now - window})
                  last(list) == list[Len(list)]
              IN  /\ Len(lim'.dailyUsage) = inWindow(lim.dailyUsage, DayWindow) + 1
                  /\ Len(lim'.monthlyUsage) = inWindow(lim.monthlyUsage, MonthWindow) + 1
                  /\ Len(lim'.tokenUsageHistory)
                       = inWindow(lim.tokenUsageHistory, MinuteWindow) + 1
                  /\ Len(lim'.requestHistory)
                       = Cardinality({i \in 1..Len(lim.requestHistory) :
                            lim.requestHistory[i] > now - MinuteWindow}) + 1
                  /\ last(lim'.dailyUsage) = rec /\ last(lim'.monthlyUsage) = rec
                  /\ last(lim'.tokenUsageHistory) = [timestamp |-> now, tokens |-> total]
                  /\ last(lim'.requestHistory) = now
                  /\ getBudgetUsage(lim', now).dailyTokens
                       = getBudgetUsage(lim, now).dailyTokens + total
                  /\ getBudgetUsage(lim', now).monthlyTokens
                       = getBudgetUsage(lim, now).monthlyTokens + total]_vars

C19_Witness ==
  /\ now = MinuteWindow
  /\ \A c \in Calls : Returned(c)
  /\ getBudgetUsage(lim, now).dailyTokens = 5
  /\ getBudgetUsage(lim, now).monthlyTokens = 5
  /\ Len(lim.dailyUsage) = 2 /\ Len(lim.requestHistory) = 1

\* ----------------------------------------------------------- metrics
\* the successful returns of route(), per endpoint
ReturnedBy(p) == {c \in ReturnedCalls : call[c].result.provider = p}

\* the failed attempts of all calls against endpoint p
FailedAttemptsOn(p) ==
  SumSeq([c \in Calls |->
            Cardinality({i \in 1..Len(call[c].attempts) :
                           /\ call[c].attempts[i].provider = p
                           /\ ~call[c].attempts[i].success})])

SumTokens(cs) == SumSeq([c \in Calls |-> IF c \in cs THEN call[c].result.tokens ELSE 0])

SumCost(cs) == SumSeq([c \in Calls |-> IF c \in cs THEN call[c].result.totalCost ELSE 0])

\* C21: after any sequence of route() calls, overlapping ones included, the
\* global totalRequests is the number of calls that returned, totalTokens
\* and totalCost are the sums of the returned responses' tokens and costs,
\* and every endpoint's success count, tokens and cost are those of the
\* returns it served, its request count one per success and per failure.
C21_SuccessMetricsTally ==
  /\ metrics.totalRequests = Cardinality(ReturnedCalls)
  /\ metrics.totalTokens = SumTokens(ReturnedCalls)
  /\ metrics.totalCost = SumCost(ReturnedCalls)
  /\ \A p \in P :
       LET pm == metrics.providerMetrics[p]
       IN  /\ pm.successCount = Cardinality(ReturnedBy(p))
           /\ pm.totalTokens = SumTokens(ReturnedBy(p))
           /\ pm.totalCost = SumCost(ReturnedBy(p))
           /\ pm.failureCount = FailedAttemptsOn(p)
           /\ pm.requestCount = pm.successCount + pm.failureCount

\* two calls that overlapped (the second passed the gate before the first
\* recorded its request) both returned, one of them after a fallback
C21_Witness ==
  /\ ReturnedCalls = Calls
  /\ now = 0
  /\ \A c \in Calls : call[c].gateSeen = 0
  /\ \E c \in Calls : call[c].result.fallbackTriggered
  /\ metrics.totalRequests = NCalls
  /\ metrics.totalCost > 0

\* call c logged a failed attempt against endpoint p in this step
FailedAttemptStep(c, p) ==
  /\ Len(call'[c].attempts) = Len(call[c].attempts) + 1
  /\ call'[c].attempts[Len(call'[c].attempts)].provider = p
  /\ ~call'[c].attempts[Len(call'[c].attempts)].success

\* C22: a failed attempt of a sequential route() call adds one to the
\* endpoint's request count and one to its failure count and changes nothing
\* else: not its success count, tokens, cost, average latency or lastUsed,
\* not another endpoint's metrics, not a global total, not a limiter list.
C22_FailureCountsOnly ==
  [][\A c \in Calls : \A p \in P :
       FailedAttemptStep(c, p) =>
         LET pm == metrics.providerMetrics[p]
             pn == metrics'.providerMetrics[p]
         IN  /\ pn.requestCount = pm.requestCount + 1
             /\ pn.failureCount = pm.failureCount + 1
             /\ pn.successCount = pm.successCount
             /\ pn.totalTokens = pm.totalTokens
             /\ pn.totalCost = pm.totalCost
             /\ pn.avgLatency = pm.avgLatency
             /\ pn.lastUsed = pm.lastUsed
             /\ \A q \in P \ {p} : metrics'.providerMetrics[q] = metrics.providerMetrics[q]
             /\ metrics'.totalRequests = metrics.totalRequests
             /\ metrics'.totalTokens = metrics.totalTokens
             /\ metrics'.totalCost = metrics.totalCost
             /\ metrics'.rateLimitHits = metrics.rateLimitHits
             /\ metrics'.fallbackCount = metrics.fallbackCount
             /\ metrics'.speculativeExecutionMetrics = metrics.speculativeExecutionMetrics
             /\ lim' = lim]_vars

\* an endpoint first served a success and then failed an attempt: its
\* average latency is still the duration of the success
C22_Witness ==
  \E p \in P : \E d \in Durations :
    /\ metrics.providerMetrics[p].successCount = 1
    /\ metrics.providerMetrics[p].failureCount = 1
    /\ metrics.providerMetrics[p].avgLatency = Rat(d, 1)
    /\ metrics.totalRequests = 1
    /\ lim.requestHistory # <<>>

\* ------------------------------------------------------ race-mode metrics
RacedSizes(cs) == SumSeq([c \in Calls |-> IF c \in cs THEN Len(call[c].sel) ELSE 0])

ExtraCost(cs) ==
  SumSeq([c \in Calls |-> IF c \in cs
                          THEN call[c].result.totalCost * (Len(call[c].sel) - 1)
                          ELSE 0])

RaceMetricsTally ==
  LET sm == metrics.speculativeExecutionMetrics
      k == Cardinality(ReturnedCalls)
  IN  /\ sm.totalSpeculativeRequests = k
      /\ sm.fasterThanSequentialCount = k
      /\ sm.totalAdditionalCost = ExtraCost(ReturnedCalls)
      /\ k > 0 => sm.avgCandidatesRaced = Rat(RacedSizes(ReturnedCalls), k)

\* C23 as stated: after k successful race-mode calls the race-request count
\* and the faster-than-sequential count are k, the cumulative extra cost is
\* the sum of winner cost * (raced - 1), and the average number of
\* candidates raced is the mean of the raced-set sizes.
C23_RaceMetricsAlways == RaceMetricsTally

\* C23 amended: the same, for a router whose speculativeConfig has
\* enableCostTracking set (or is absent, which defaults to set).
C23_RaceMetricsWhenTracked ==
  specConfigOf(config).enableCostTracking => RaceMetricsTally

\* cost tracking is on and two race calls returned, one that raced one
\* candidate and one that raced two: the average is 3/2
C23_Witness ==
  /\ specConfigOf(config).enableCostTracking
  /\ ReturnedCalls = Calls
  /\ RacedSizes(Calls) > NCalls
  /\ \E c \in Calls : Len(call[c].sel) = 1
  /\ metrics.speculativeExecutionMetrics.totalAdditionalCost > 0
  /\ metrics.speculativeExecutionMetrics.avgCandidatesRaced.den > 1

\* ------------------------------------------------- snapshots and registry
SnapshotTotalsZero ==
  /\ snapshot.totalRequests = 0
  /\ snapshot.totalCost = 0
  /\ snapshot.totalTokens = 0
  /\ snapshot.rateLimitHits = 0
  /\ snapshot.fallbackCount = 0

\* C24 as stated: getMetrics() right after resetMetrics() returns all-zero
\* global counters and an empty per-endpoint map.
C24_ResetGivesEmptyMap ==
  snapshot.afterReset => SnapshotTotalsZero /\ snapshot.ids = {}

\* C24 amended: getMetrics() right after resetMetrics() returns all-zero
\* global counters and a per-endpoint map with exactly one entry per
\* registered endpoint, every counter of which is zero.
C24_ResetGivesZeroedEntries ==
  snapshot.afterReset =>
    /\ SnapshotTotalsZero
    /\ snapshot.ids = snapshot.providers
    /\ \A p \in snapshot.ids : snapshot.asReturned[p] = createEmptyProviderMetrics

\* both calls returned and were counted, then resetMetrics() and getMetrics()
\* ran: the snapshot still shares the entry that the reset created
C24_Witness ==
  /\ ReturnedCalls = Calls
  /\ metrics.totalRequests = 0
  /\ snapshot.afterReset
  /\ snapshot.shared = {"p1"}
  /\ snapshot.ids = {"p1"}

\* C25: the values of a getMetrics() result (the global totals and every
\* per-endpoint entry) stay what they were when it was returned, whatever
\* route(), routeStream(), registerProvider() or resetMetrics() do later.
\* (The totals are numbers copied into the snapshot record.)
C25_SnapshotIsDefensiveCopy ==
  snapshot.taken =>
    \A p \in snapshot.ids :
      snapshotEntry(snapshot, metrics, p) = snapshot.asReturned[p]

NoDuplicates(s) == \A i, j \in 1..Len(s) : s[i] = s[j] => i = j

\* C26: an id is registered at most once however often it is registered
\* again, a call's candidate list contains it at most once, and an adapter
\* that a call starts is the one most recently registered under its id.
C26_LastRegistrationWins ==
  /\ [](/\ NoDuplicates(registry)
        /\ \A c \in Calls : NoDuplicates(call[c].sel) /\ NoDuplicates(call[c].called))
  /\ [][\A c \in Calls : \A p \in P :
          (p \in call'[c].inflight /\ p \notin call[c].inflight)
            => call'[c].adapters[p] = descs'[p]]_vars

\* p1 was registered a second time with another descriptor and then served
\* a call: the cost is the one of the second adapter
C26_Witness ==
  /\ registry = <<"p1">>
  /\ descs["p1"] # OnlyFirst["p1"]
  /\ \E c \in Calls :
       /\ Returned(c)
       /\ call[c].result.provider = "p1"
       /\ call[c].adapters["p1"] = descs["p1"]
       /\ \E tok \in RespTokens :
            call[c].result.totalCost = calculateCost(tok, descs["p1"])

CountersOf(m, p) ==
  <<m.providerMetrics[p].requestCount, m.providerMetrics[p].successCount,
    m.providerMetrics[p].failureCount, m.providerMetrics[p].totalTokens,
    m.providerMetrics[p].totalCost>>

\* C27: a step that is not resetMetrics() decreases no counter: not the
\* global totals, not a counter of an endpoint's entry; registerProvider()
\* included.
C27_CountersNeverDecrease ==
  [][~fresh' =>
       /\ metrics'.totalRequests >= metrics.totalRequests
       /\ metrics'.totalTokens >= metrics.totalTokens
       /\ metrics'.totalCost >= metrics.totalCost
       /\ metrics'.rateLimitHits >= metrics.rateLimitHits
       /\ metrics'.fallbackCount >= metrics.fallbackCount
       /\ \A p \in metrics.ids : \A i \in 1..5 :
            CountersOf(metrics', p)[i] >= CountersOf(metrics, p)[i]]_vars

\* ----------------------------------------------------- limiter resets
Ran(c, method) == call[c].pc = "idle" /\ call'[c].pc = method

UsageTotalsZero(l, t) ==
  LET u == getBudgetUsage(l, t)
  IN  u.dailyTokens = 0 /\ u.dailyCost = 0 /\ u.monthlyTokens = 0 /\ u.monthlyCost = 0

IsZero(x) == x.kind = "number" /\ x.num = 0

ResetFrames(c) ==
  /\ Ran(c, "resetDailyUsage") =>
       /\ lim'.dailyUsage = <<>>
       /\ lim'.monthlyUsage = lim.monthlyUsage
       /\ lim'.requestHistory = lim.requestHistory
       /\ lim'.tokenUsageHistory = lim.tokenUsageHistory
  /\ Ran(c, "resetMonthlyUsage") =>
       /\ lim'.monthlyUsage = <<>>
       /\ lim'.dailyUsage = lim.dailyUsage
       /\ lim'.requestHistory = lim.requestHistory
       /\ lim'.tokenUsageHistory = lim.tokenUsageHistory
  /\ Ran(c, "resetAllUsage") =>
       /\ lim'.dailyUsage = <<>> /\ lim'.monthlyUsage = <<>>
       /\ lim'.requestHistory = <<>> /\ lim'.tokenUsageHistory = <<>>
       /\ UsageTotalsZero(lim', now')
       /\ checkRateLimits(lim', config.rateLimits, now').allowed

\* C28 as stated: resetDailyUsage() empties the daily ledger only,
\* resetMonthlyUsage() the monthly ledger only, resetAllUsage() all four
\* lists, after which every field of the usage snapshot is zero and
\* checkRateLimits() allows.
C28_ResetsAllZero ==
  [][\A c \in Calls :
       /\ ResetFrames(c)
       /\ Ran(c, "resetAllUsage") =>
            LET pc == budgetPercentages(lim', config.budgetLimits, now')
            IN  IsZero(pc.dailyPercentage) /\ IsZero(pc.monthlyPercentage)]_vars

\* C28 amended: the same, except that after resetAllUsage() the four usage
\* totals of the snapshot are zero while a percentage is zero only if there
\* are no budget limits or its cost ceiling is positive, and NaN otherwise.
C28_ResetsZeroOrNaN ==
  [][\A c \in Calls :
       /\ ResetFrames(c)
       /\ Ran(c, "resetAllUsage") =>
            LET bl == config.budgetLimits
                pc == budgetPercentages(lim', bl, now')
            IN  /\ IF bl.present /\ bl.dailyCost = 0
                     THEN pc.dailyPercentage.kind = "NaN"
                     ELSE IsZero(pc.dailyPercentage)
                /\ IF bl.present /\ bl.monthlyCost = 0
                     THEN pc.monthlyPercentage.kind = "NaN"
                     ELSE IsZero(pc.monthlyPercentage)]_vars

\* three tokens were recorded against a token-rate ceiling of three, which
\* denies, and resetAllUsage() ran in the same minute
C28_Witness ==
  /\ call[1].pc = "recordUsage"
  /\ call[1].result.tokens = 3
  /\ call[NCalls].pc = "resetAllUsage"
  /\ config.rateLimits.tokensPerMinute = 3
  /\ now = 0
  /\ lim = EmptyLimiter

\* ------------------------------------------------------------ retryAfter
\* the recorded requests that are inside the 60-second window
RequestsInWindow == {i \in 1..Len(lim.requestHistory) :
                       lim.requestHistory[i] > now - MinuteWindow}

\* time until the oldest of them leaves the window
OldestAgesOutIn ==
  LET oldest == CHOOSE i \in RequestsInWindow :
                  \A j \in RequestsInWindow : lim.requestHistory[i] <= lim.requestHistory[j]
  IN  lim.requestHistory[oldest] + MinuteWindow - now

\* C29: a checkRateLimits() that denies because of the request-count
\* ceiling returns as retryAfter the least whole number of seconds that is
\* not less than the time until the oldest request inside the 60-second
\* window leaves it, a number from 1 to 60; a denial because of the
\* token-rate ceiling alone returns no retryAfter.
C29_RetryAfterOldest ==
  [][\A c \in Calls :
       Ran(c, "checkRateLimits") =>
         LET r == call'[c].check
             R == config.rateLimits.requestsPerMinute
             overRequests == /\ config.rateLimits.present /\ R > 0
                             /\ Cardinality(RequestsInWindow) >= R
         IN  /\ overRequests =>
                 /\ ~r.allowed
                 /\ r.retryAfter \in 1..60
                 /\ r.retryAfter * TicksPerSecond >= OldestAgesOutIn
                 /\ (r.retryAfter - 1) * TicksPerSecond < OldestAgesOutIn
             /\ (~r.allowed /\ ~overRequests) => r.retryAfter = -1]_vars

\* a request was recorded at time 0 under a ceiling of one; the check 59.99
\* seconds later denies with retryAfter = 1
C29_Witness ==
  /\ now = MinuteWindow - 1
  /\ \E c \in Calls :
       /\ call[c].pc = "checkRateLimits"
       /\ ~call[c].check.allowed
       /\ call[c].check.retryAfter = 1
       /\ lim.requestHistory = <<0>>

\* ------------------------------------------------------ rate enforcement
\* the requests recorded so far, by the time at which they were recorded
RecordedAt == [i \in 1..Len(lim.monthlyUsage) |-> lim.monthlyUsage[i].timestamp]

\* C30: with route() calls that do not overlap and a positive
\* requestsPerMinute ceiling R, at most R recorded requests lie in any
\* interval of 60 seconds (open at its older end, as the limiter's window
\* is), which it suffices to check for the intervals that end at a record.
C30_CeilingEnforced ==
  RateCeiling > 0 =>
    \A i \in 1..Len(RecordedAt) :
      Cardinality({j \in 1..Len(RecordedAt) :
                     /\ RecordedAt[j] > RecordedAt[i] - MinuteWindow
                     /\ RecordedAt[j] <= RecordedAt[i]}) <= RateCeiling

\* under a ceiling of one a call recorded its request, and the next call,
\* 59.99 seconds later, was refused
C30_Witness ==
  /\ RateCeiling = 1
  /\ RecordedAt = <<0>>
  /\ now = MinuteWindow - 1
  /\ \E c \in Calls : call[c].pc = "threw" /\ call[c].err = "RateLimited"


\* ---------------------------------------------------- rolling-window expiry
\* C31: a request recorded at time t counts toward checkRateLimits() only
\* at times strictly before t + 60 seconds: a check denies on the
\* request-count ceiling exactly when that many recorded requests are
\* younger than 60 seconds, and once every recorded request is at least 60
\* seconds old (60 seconds after a denial with no usage recorded since) the
\* check allows, without any reset.
C31_WindowExpiry ==
  [][\A c \in Calls :
       Ran(c, "checkRateLimits") =>
         LET r == call'[c].check
             R == config.rateLimits.requestsPerMinute
             counted == {i \in 1..Len(lim.requestHistory) :
                           now < lim.requestHistory[i] + MinuteWindow}
             expired == \A i \in 1..Len(lim.requestHistory) :
                           now >= lim.requestHistory[i] + MinuteWindow
         IN  /\ (config.rateLimits.present /\ R > 0) =>
                  ((r.cause = "requests") <=> (Cardinality(counted) >= R))
             /\ expired => r.allowed]_vars

\* under a ceiling of one, the request recorded at time 0 is still on the
\* list at time 60 s, never reset, and the check at that time allows
C31_Witness ==
  /\ now = MinuteWindow
  /\ config.rateLimits.present
  /\ config.rateLimits.requestsPerMinute = 1
  /\ lim.requestHistory = <<0>>
  /\ call[1].pc = "recordUsage"
  /\ call[2].pc = "checkRateLimits"
  /\ call[2].check.allowed


\* ------------------------------------------- failure metrics in every mode
\* C32: every step in which the engine records a failed RoutingAttempt, in
\* sequential route(), in race-mode route() and in routeStream(), increases
\* the failing endpoint's request count and failure count by one each.
C32_FailedAttemptCounted ==
  [][\A c \in Calls : \A p \in P :
       FailedAttemptStep(c, p) =>
         /\ metrics'.providerMetrics[p].requestCount =
              metrics.providerMetrics[p].requestCount + 1
         /\ metrics'.providerMetrics[p].failureCount =
              metrics.providerMetrics[p].failureCount + 1]_vars


\* ---------------------------------------------- routeStream() and route()
\* a call that has ended
Ended(c) == call[c].pc \in {"returned", "threw"}

\* no endpoint succeeded in one of the two calls and failed in the other
SameOutcomes(c1, c2) ==
  \A i \in 1..Len(call[c1].attempts) : \A j \in 1..Len(call[c2].attempts) :
    call[c1].attempts[i].provider = call[c2].attempts[j].provider =>
      call[c1].attempts[i].success = call[c2].attempts[j].success

\* C33: under a non-race strategy, a sequential route() call and a
\* routeStream() call on the same endpoints and configuration, with the same
\* per-endpoint outcomes and with the limiter either empty throughout or
\* without any configured ceiling, both return the same endpoint, attempts and
\* fallbackTriggered value, or both fail with the same error kind.
C33_StreamMatchesRoute ==
  \A c1 \in Calls : \A c2 \in Calls :
    ( /\ Ended(c1) /\ ~call[c1].stream
      /\ Ended(c2) /\ call[c2].stream
      /\ config.strategy # "speculative"
      /\ \/ lim = EmptyLimiter
         \/ ~config.budgetLimits.present /\ ~config.rateLimits.present
      /\ SameOutcomes(c1, c2) )
    => /\ call[c1].pc = call[c2].pc
       /\ call[c1].err = call[c2].err
       /\ call[c1].attempts = call[c2].attempts
       /\ call[c1].result.provider = call[c2].result.provider
       /\ call[c1].result.fallbackTriggered = call[c2].result.fallbackTriggered


\* ------------------------------------------------- running-average latency
\* C34: each endpoint's running-average latency is the arithmetic mean of
\* the durations of its successful requests, 0 if it has none, whatever
\* failed attempts came before or between them; the mean of durations lies
\* between the least and the greatest of them (and is their common value
\* when all durations are equal).
C34_AvgLatencyIsMean ==
  \A p \in P :
    LET pm == metrics.providerMetrics[p]
    IN  IF pm.successCount = 0
        THEN pm.avgLatency = Rat(0, 1)
        ELSE /\ \E d \in Durations : pm.avgLatency.num <= d * pm.avgLatency.den
             /\ \E e \in Durations : e * pm.avgLatency.den <= pm.avgLatency.num


\* ------------------------------------------------- usage only on success
\* the calls that return in this step
Returning == {c \in Calls : call[c].pc # "returned" /\ call'[c].pc = "returned"}

\* C35: usage is recorded only on success: a step in which no call returns
\* successfully (a gate failure, no candidates, a failed attempt, a failure
\* with fallback disabled, the last candidate failing) leaves the limiter's
\* four lists as they were, and a step in which a call returns appends to
\* each list exactly one record, carrying the chosen response's total
\* tokens (the clock stands still here, so no record expires).
C35_UsageOnlyOnSuccess ==
  [][/\ Returning = {} => lim' = lim
     /\ \A c \in Returning :
          LET tok == call'[c].result.tokens
              n == Len(lim.dailyUsage) + 1
              k == Len(lim.monthlyUsage) + 1
          IN  /\ Returning = {c}
              /\ lim'.requestHistory = Append(lim.requestHistory, now)
              /\ lim'.tokenUsageHistory =
                   Append(lim.tokenUsageHistory, [timestamp |-> now, tokens |-> tok])
              /\ Len(lim'.dailyUsage) = n
              /\ SubSeq(lim'.dailyUsage, 1, n - 1) = lim.dailyUsage
              /\ lim'.dailyUsage[n].tokens = tok
              /\ Len(lim'.monthlyUsage) = k
              /\ SubSeq(lim'.monthlyUsage, 1, k - 1) = lim.monthlyUsage
              /\ lim'.monthlyUsage[k].tokens = tok]_vars

\* one route() call tried two endpoints and failed, another returned: the
\* limiter holds the single record of the call that returned
C35_Witness ==
  /\ \E c \in Calls :
       /\ call[c].pc = "threw" /\ call[c].err = "AllProvidersFailed"
       /\ ~call[c].stream /\ Len(call[c].attempts) = 2
  /\ \E c \in Calls :
       /\ Returned(c) /\ ~call[c].stream
       /\ lim.tokenUsageHistory = <<[timestamp |-> now, tokens |-> call[c].result.tokens]>>
  /\ Len(lim.monthlyUsage) = 1


\* ------------------------------------------------- limiter cost vs metrics
\* C36: within one daily window and without resets, the limiter's daily
\* cost total equals the metrics' global totalCost (each successful request
\* adds the response's cost, total tokens / 1,000,000 times the chosen
\* endpoint's declared cost-per-million, to both).
C36_LimiterCostIsMetricsCost ==
  now < DayWindow => getBudgetUsage(lim, now).dailyCost = metrics.totalCost


\* ------------------------------------------------------ race-mode liveness
\* every raced candidate's call of call c has failed
AllRacedFailed(c) ==
  \A p \in Range(call[c].sel) : call[c].branch[p] \in {"rejPlain", "rejAborted", "failed"}

\* C37: in race mode, the step in which a raced candidate's call completes
\* successfully while no winner is chosen is the step in which route()
\* returns that success, whatever the state of the other candidates' calls
\* (which may never complete); and once every raced candidate's call has
\* failed, route() eventually fails with AllProvidersFailed.
C37_RaceLiveness ==
  /\ [][\A c \in Calls : \A p \in P :
          (call[c].pc = "racing" /\ call[c].branch[p] = "inflight"
             /\ call'[c].branch[p] = "won")
          => /\ call'[c].pc = "returned"
             /\ call'[c].result.provider = p]_vars
  /\ \A c \in Calls :
       (call[c].pc = "racing" /\ AllRacedFailed(c))
         ~> (call[c].pc = "threw" /\ call[c].err = "AllProvidersFailed")

\* one call has returned a success while another raced candidate's call is
\* still pending, and one call has failed after all its candidates failed
C37_Witness ==
  /\ \E c \in Calls : \E q \in P :
       /\ Returned(c)
       /\ q \in call[c].inflight
       /\ q # call[c].result.provider
       /\ call[c].branch[q] = "cancelled"
  /\ \E c \in Calls :
       /\ call[c].pc = "threw" /\ call[c].err = "AllProvidersFailed"
       /\ \A p \in Range(call[c].sel) : call[c].branch[p] = "failed"
       /\ Len(call[c].sel) = 2


C39_TotalIsSumOfSuccesses ==
  metrics.totalRequests =
    SumSeq([i \in 1..Len(registry) |-> metrics.providerMetrics[registry[i]].successCount])


\* C40: in every reachable state every registered endpoint has
\* requestCount = successCount + failureCount.
C40_RequestsAreSuccessesPlusFailures ==
  \A i \in 1..Len(registry) :
    LET pm == metrics.providerMetrics[registry[i]]
    IN  pm.requestCount = pm.successCount + pm.failureCount

\* a registered endpoint has served one request and failed another
C40_Witness ==
  \E i \in 1..Len(registry) :
    LET pm == metrics.providerMetrics[registry[i]]
    IN  /\ pm.successCount = 1
        /\ pm.failureCount = 1
        /\ pm.requestCount = 2

====
